---- MODULE Spec2Model ----
(***************************************************************************)
(* Model of the SynthQuant API simulation core: the event injector         *)
(* (app/services/event_manager.py), the GBM path generators                *)
(* (app/services/generator.py, app/services/data_generator.py) and the     *)
(* create-dataset handler (app/routers/v1.py).                             *)
(*                                                                         *)
(* Numbers.  Python floats are modelled as exact rationals (ideal real     *)
(* arithmetic, no rounding).  Numerators and denominators are naturals of  *)
(* arbitrary size, kept as little-endian sequences of base-10000 limbs, so *)
(* that a product of many factors never leaves the machine range.  The     *)
(* section "Events on float64 prices" is the exception: there every sum    *)
(* and product is rounded to the nearest IEEE 754 double, for the          *)
(* properties in which the rounding itself is what is observed.            *)
(***************************************************************************)
EXTENDS Integers, Sequences, FiniteSets, TLC

(***************************************************************************)
(* Arbitrary-size naturals                                                 *)
(***************************************************************************)
Base == 100 * 100

RECURSIVE BStrip(_)
BStrip(a) ==
    IF a = <<>> THEN <<>>
    ELSE IF a[Len(a)] = 0 THEN BStrip(SubSeq(a, 1, Len(a) - 1))
    ELSE a

RECURSIVE BFromInt(_)
BFromInt(k) == IF k = 0 THEN <<>> ELSE <<k % Base>> \o BFromInt(k \div Base)

RECURSIVE BToInt(_)
BToInt(a) == IF a = <<>> THEN 0 ELSE Head(a) + Base * BToInt(Tail(a))

RECURSIVE BAddC(_, _, _)
BAddC(a, b, c) ==
    IF a = <<>> /\ b = <<>> THEN (IF c = 0 THEN <<>> ELSE <<c>>)
    ELSE LET x == IF a = <<>> THEN 0 ELSE Head(a)
             y == IF b = <<>> THEN 0 ELSE Head(b)
             s == x + y + c
         IN  <<s % Base>> \o BAddC(IF a = <<>> THEN <<>> ELSE Tail(a),
                                   IF b = <<>> THEN <<>> ELSE Tail(b),
                                   s \div Base)

BAdd(a, b) == BAddC(a, b, 0)

RECURSIVE BCmpFrom(_, _, _)
BCmpFrom(a, b, i) ==
    IF i = 0 THEN 0
    ELSE IF a[i] < b[i] THEN -1
    ELSE IF a[i] > b[i] THEN 1
    ELSE BCmpFrom(a, b, i - 1)

\* -1, 0, 1 as a < b, a = b, a > b
BCmp(a, b) ==
    IF Len(a) < Len(b) THEN -1
    ELSE IF Len(a) > Len(b) THEN 1
    ELSE BCmpFrom(a, b, Len(a))

RECURSIVE BSubC(_, _, _)
\* a - b - c for a >= b + c
BSubC(a, b, c) ==
    IF a = <<>> THEN <<>>
    ELSE LET y == IF b = <<>> THEN 0 ELSE Head(b)
             s == Head(a) - y - c
         IN  <<IF s < 0 THEN s + Base ELSE s>>
                 \o BSubC(Tail(a), IF b = <<>> THEN <<>> ELSE Tail(b),
                          IF s < 0 THEN 1 ELSE 0)

BSub(a, b) == BStrip(BSubC(a, b, 0))

RECURSIVE BMulLimb(_, _, _)
BMulLimb(a, k, c) ==
    IF a = <<>> THEN (IF c = 0 THEN <<>> ELSE <<c>>)
    ELSE LET s == Head(a) * k + c
         IN  <<s % Base>> \o BMulLimb(Tail(a), k, s \div Base)

RECURSIVE BMul(_, _)
BMul(a, b) ==
    IF a = <<>> \/ b = <<>> THEN <<>>
    ELSE LET rest == BMul(a, Tail(b))
         IN  BAdd(BMulLimb(a, Head(b), 0),
                  IF rest = <<>> THEN <<>> ELSE <<0>> \o rest)

RECURSIVE Gcd(_, _)
Gcd(x, y) == IF y = 0 THEN x ELSE Gcd(y, x % y)

(***************************************************************************)
(* Rationals: [s |-> sign, n |-> numerator, d |-> denominator]             *)
(***************************************************************************)
RZero == [s |-> 0, n |-> <<>>, d |-> <<1>>]

RECURSIVE RMake(_, _, _)
\* Lowest terms whenever numerator and denominator both fit two limbs; a common
\* factor Base is always cancelled.
RMake(sg, n, d) ==
    IF n = <<>> \/ sg = 0 THEN RZero
    ELSE IF Head(n) = 0 /\ Head(d) = 0 THEN RMake(sg, Tail(n), Tail(d))
    ELSE IF Len(n) <= 2 /\ Len(d) <= 2
         THEN LET x == BToInt(n)
                  y == BToInt(d)
                  g == Gcd(x, y)
              IN  [s |-> sg, n |-> BFromInt(x \div g), d |-> BFromInt(y \div g)]
         ELSE [s |-> sg, n |-> n, d |-> d]

Sign(k) == IF k < 0 THEN -1 ELSE IF k > 0 THEN 1 ELSE 0
Abs(k) == IF k < 0 THEN -k ELSE k

\* The rational a/b of two machine integers, b # 0
Q(a, b) == RMake(Sign(a) * Sign(b), BFromInt(Abs(a)), BFromInt(Abs(b)))
RInt(k) == Q(k, 1)
ROne == RInt(1)

RNeg(a) == [a EXCEPT !.s = -a.s]
RAbs(a) == [a EXCEPT !.s = IF a.s = 0 THEN 0 ELSE 1]

RMul(a, b) == RMake(a.s * b.s, BMul(a.n, b.n), BMul(a.d, b.d))

\* a / b, b # 0
RDiv(a, b) == RMake(a.s * b.s, BMul(a.n, b.d), BMul(a.d, b.n))

RAdd(a, b) ==
    IF a.s = 0 THEN b
    ELSE IF b.s = 0 THEN a
    ELSE LET x == IF a.d = b.d THEN a.n ELSE BMul(a.n, b.d)
             y == IF a.d = b.d THEN b.n ELSE BMul(b.n, a.d)
             d == IF a.d = b.d THEN a.d ELSE BMul(a.d, b.d)
             c == BCmp(x, y)
         IN  IF a.s = b.s THEN RMake(a.s, BAdd(x, y), d)
             ELSE IF c = 0 THEN RZero
             ELSE IF c > 0 THEN RMake(a.s, BSub(x, y), d)
             ELSE RMake(b.s, BSub(y, x), d)

RSub(a, b) == RAdd(a, RNeg(b))

\* -1, 0, 1 as a < b, a = b, a > b
RCmp(a, b) ==
    IF a.s # b.s THEN (IF a.s < b.s THEN -1 ELSE 1)
    ELSE IF a.s = 0 THEN 0
    ELSE a.s * BCmp(BMul(a.n, b.d), BMul(b.n, a.d))

REq(a, b) == RCmp(a, b) = 0
RLt(a, b) == RCmp(a, b) < 0
RLe(a, b) == RCmp(a, b) <= 0
RMax(a, b) == IF RLt(a, b) THEN b ELSE a
RMin(a, b) == IF RLt(b, a) THEN b ELSE a

(***************************************************************************)
(* Python values                                                           *)
(***************************************************************************)
None == [tag |-> "none"]
Num(r) == [tag |-> "num", v |-> r]
IntV(k) == [tag |-> "int", v |-> k]
Str(x) == [tag |-> "str", v |-> x]

\* bool(x) of an optional number or string
Truthy(x) ==
    CASE x.tag = "none" -> FALSE
      [] x.tag = "num" -> x.v.s # 0
      [] x.tag = "int" -> x.v # 0
      [] OTHER -> x.v # ""

\* x or dflt
PyOr(x, dflt) == IF Truthy(x) THEN x ELSE dflt

\* str.lower() on the names that occur in the model
Lower(x) ==
    CASE x = "IPO" -> "ipo"
      [] x = "Crash" -> "crash"
      [] x = "EARNINGS" -> "earnings"
      [] x = "Close" -> "close"
      [] x = "PRICE" -> "price"
      [] x = "Prices" -> "prices"
      [] OTHER -> x

(***************************************************************************)
(* Prices and DataFrames                                                   *)
(*                                                                         *)
(* A price is c * exp(e.a + e.b / sqrt(e.rt)) with c, e.a, e.b rational,   *)
(* or NaN.  exp and sqrt stay symbolic; the events only scale c.           *)
(***************************************************************************)
ExpZero == [a |-> RZero, b |-> RZero, rt |-> 1]
NaN == [nan |-> TRUE, c |-> RZero, e |-> ExpZero]
Price(r) == [nan |-> FALSE, c |-> r, e |-> ExpZero]

\* Variant of PMul: NaN taken as zero, the product being a number
PMulNanAsZero(p, k) == [nan |-> FALSE, c |-> RMul(p.c, k), e |-> p.e]

\* float * float, NaN propagating
PMul(p, k) == IF p.nan THEN NaN ELSE [p EXCEPT !.c = RMul(p.c, k)]

\* Same value (NaN is compared as "absent", not as the IEEE unequal-to-itself)
PEq(p, q) ==
    IF p.nan \/ q.nan THEN p.nan = q.nan
    ELSE REq(p.c, q.c) /\ p.e = q.e

SeriesEq(x, y) ==
    /\ Len(x) = Len(y)
    /\ \A i \in 1..Len(x) : PEq(x[i], y[i])

\* A DataFrame: the ordered column names and one sequence of values per column.
DataFrame(columns, data) == [columns |-> columns, data |-> data]

\* len(df)
DfLen(df) == IF df.columns = <<>> THEN 0 ELSE Len(df.data[df.columns[1]])

InSeq(x, sq) == \E i \in 1..Len(sq) : sq[i] = x

\* Variant of DfCopy: the object itself instead of a copy
DfNoCopy(h, id) == [heap |-> h, id |-> id]

\* df.copy(): a new object on the heap holding the same values
DfCopy(h, id) == [heap |-> Append(h, h[id]), id |-> Len(h) + 1]

(***************************************************************************)
(* Random sources                                                          *)
(*                                                                         *)
(* A generator seeded with an integer is a fixed function of the seed: its *)
(* k-th variate is read off the digits of the seed, so that equal seeds    *)
(* give equal streams, different seeds give different streams, and every   *)
(* combination of the model's variates is the stream of some seed.         *)
(***************************************************************************)
\* rng.uniform(2.5, 4.0)
UniformDraws == <<Q(5, 2), Q(7, 2)>>
\* standard normal variates
NormalDraws == <<RInt(0), RInt(-2), RInt(2)>>

RECURSIVE Digit(_, _, _)
\* digit k (from 0) of x written in base b
Digit(x, b, k) ==
    IF x = 0 THEN 0
    ELSE IF k = 0 THEN x % b
    ELSE Digit(x \div b, b, k - 1)

\* np.random.RandomState(seed): the first variate drawn is the uniform one,
\* the k-th normal variate (k >= 1) follows it.
RandomStateUniform(seed) == UniformDraws[(seed % Len(UniformDraws)) + 1]
RandomStateNormal(seed, k, loc, scale) ==
    RAdd(loc, RMul(scale,
        NormalDraws[Digit(seed \div Len(UniformDraws), Len(NormalDraws), k - 1) + 1]))

\* int(time.time() * 1000) % (2**31); every clock reading of the model is
\* below 2**31, where the remainder is the reading itself.
TimeSeed(ms) == ms

(***************************************************************************)
(* EventManager (app/services/event_manager.py)                            *)
(***************************************************************************)
MinMagnitude == Q(1, 100)
MaxMagnitude == Q(99, 100)
MaxStepDrop == Q(-15, 100)
MaxStepGain == Q(5, 100)
ScaleThreshold == Q(1, 100)
BlendScaled == Q(7, 10)
BlendOriginal == Q(3, 10)
FloorFactor == Q(11, 10)
EarningsFloor == Q(1, 100)
DefaultCrashMagnitude == Q(3, 10)
DefaultEarningsMagnitude == Q(1, 10)
DefaultCrashDuration == 10

RECURSIVE RSum(_)
RSum(sq) == IF sq = <<>> THEN RZero ELSE RAdd(Head(sq), RSum(Tail(sq)))

\* np.random.normal's result for step i (0-based) of the window, clamped
\* (lines 205-222); crash_volatility is |avg_return| * rng.uniform(2.5, 4.0)
CrashStepReturn(avg_return, crash_volatility, ad, seed, i) ==
    RMin(RMax(RandomStateNormal(seed, i + 1,
                  RMul(avg_return, RSub(Q(15, 10), RMul(Q(i, ad), Q(8, 10)))),
                  RMul(crash_volatility, RSub(Q(13, 10), RMul(Q(i, ad), Q(4, 10))))),
              MaxStepDrop),
         MaxStepGain)

\* The clamped draws of the whole window (lines 197-227)
CrashRawReturns(magnitude, ad, seed) ==
    LET avg_return == RNeg(RDiv(magnitude, RInt(ad)))
    IN  [i \in 1..ad |->
            CrashStepReturn(avg_return, RMul(RAbs(avg_return), RandomStateUniform(seed)),
                            ad, seed, i - 1)] \o <<>>

\* returns * (0.7 * scale_factor + 0.3)
ScaleReturns(returns, f) == [i \in 1..Len(returns) |-> RMul(returns[i], f)] \o <<>>

\* Lines 229-238: blend the returns toward the target cumulative return
BlendReturns(returns, final_cumulative, target_cumulative) ==
    IF RLt(ScaleThreshold, RAbs(final_cumulative))
    THEN ScaleReturns(returns,
             RAdd(RMul(BlendScaled, RDiv(target_cumulative, final_cumulative)),
                  BlendOriginal))
    ELSE returns

BlendOf(returns, magnitude) == BlendReturns(returns, RSum(returns), RNeg(magnitude))

\* The returns applied to the prices
CrashReturns(magnitude, ad, seed) == BlendOf(CrashRawReturns(magnitude, ad, seed), magnitude)

\* Variant of CumulativeStep: without the floor of line 245
CumulativeStepNoFloor(cumulative_mult, ret, magnitude) == RMul(cumulative_mult, RAdd(ROne, ret))

\* One step of lines 243-245
CumulativeStep(cumulative_mult, ret, magnitude) ==
    RMax(RMul(cumulative_mult, RAdd(ROne, ret)),
         RSub(ROne, RMul(magnitude, FloorFactor)))

RECURSIVE CumulativeMults(_, _, _)
\* The values cumulative_mult takes in the loop of lines 241-246, given the
\* values acc it has taken so far
CumulativeMults(returns, magnitude, acc) ==
    IF Len(acc) = Len(returns) THEN acc
    ELSE CumulativeMults(returns, magnitude,
             Append(acc, CumulativeStep(IF acc = <<>> THEN ROne ELSE acc[Len(acc)],
                                        returns[Len(acc) + 1], magnitude)))

ClampMagnitude(m) ==
    IF RLe(m, RZero) \/ RLe(ROne, m)
    THEN RMin(MaxMagnitude, RMax(MinMagnitude, m))
    ELSE m

ClampDuration(d) == IF d < 1 THEN 1 ELSE d

\* What a call returns: the heap after it, the object returned, whether it raised,
\* and (for a crash that ran) the multipliers it used.
NoTrace == [ran |-> FALSE, magnitude |-> RZero, cum |-> <<>>, returns |-> <<>>,
            seed |-> 0, crash_end |-> 0]
Returned(h, id) == [heap |-> h, ret |-> id, raised |-> FALSE, trace |-> NoTrace]
Raised(h, id) == [heap |-> h, ret |-> id, raised |-> TRUE, trace |-> NoTrace]

\* df[column] = values on the object id
SetColumn(h, id, column, values) == [h EXCEPT ![id].data[column] = values]

\* Variant of IpoPrices: the slice reaches one point further
IpoPricesOffByOne(old, trigger_step) ==
    [i \in 1..Len(old) |-> IF i <= trigger_step + 1 THEN NaN ELSE old[i]] \o <<>>

\* result.iloc[:trigger_step, col] = np.nan
IpoPrices(old, trigger_step) ==
    [i \in 1..Len(old) |-> IF i <= trigger_step THEN NaN ELSE old[i]] \o <<>>

IpoOn(cp, trigger_step, price_column) ==
    Returned(SetColumn(cp.heap, cp.id, price_column,
                 IpoPrices(cp.heap[cp.id].data[price_column], trigger_step)),
             cp.id)

\* Variant of ApplyIpo: without the bounds guard of lines 127-129
ApplyIpoUnguarded(h, df, trigger_step, price_column) ==
    IpoOn(DfCopy(h, df), trigger_step, price_column)

\* EventManager._apply_ipo
ApplyIpo(h, df, trigger_step, price_column) ==
    IF trigger_step < 0 \/ trigger_step >= DfLen(h[df]) THEN Returned(h, df)
    ELSE IpoOn(DfCopy(h, df), trigger_step, price_column)

\* Lines 240-251: the prices after the crash
CrashPrices(prices, trigger_step, crash_end, cum, final_multiplier) ==
    [i \in 1..Len(prices) |->
        IF i <= trigger_step THEN prices[i]
        ELSE IF i <= crash_end THEN PMul(prices[i], cum[i - trigger_step])
        ELSE PMul(prices[i], final_multiplier)] \o <<>>

\* Variant of FinalMultiplier: the floor of the window instead of 1 - magnitude
FinalMultiplierFloor(magnitude) == RSub(ROne, RMul(magnitude, FloorFactor))

\* 1 - magnitude (line 249)
FinalMultiplier(magnitude) == RSub(ROne, magnitude)

CrashResult(cp, price_column, prices, trigger_step, crash_end, m, returns, cum, sd) ==
    [heap |-> SetColumn(cp.heap, cp.id, price_column,
                  CrashPrices(prices, trigger_step, crash_end, cum, FinalMultiplier(m))),
     ret |-> cp.id, raised |-> FALSE,
     trace |-> [ran |-> TRUE, magnitude |-> m, cum |-> cum, returns |-> returns,
                seed |-> sd, crash_end |-> crash_end]]

CrashWindow(cp, price_column, prices, trigger_step, crash_end, m, returns, sd) ==
    CrashResult(cp, price_column, prices, trigger_step, crash_end, m, returns,
                CumulativeMults(returns, m, <<>>), sd)

\* min(trigger_step + duration_steps, n)
CrashEnd(trigger_step, duration_steps, n) ==
    IF trigger_step + duration_steps < n THEN trigger_step + duration_steps ELSE n

\* Lines 176-254, on the copy cp, with the clamped magnitude m and duration d
CrashOn(cp, price_column, prices, trigger_step, crash_end, m, sd) ==
    IF crash_end - trigger_step < 1 THEN Returned(cp.heap, cp.id)
    ELSE CrashWindow(cp, price_column, prices, trigger_step, crash_end, m,
                     CrashReturns(m, crash_end - trigger_step, sd), sd)

CrashCopy(cp, price_column, trigger_step, m, d, sd) ==
    CrashOn(cp, price_column, cp.heap[cp.id].data[price_column], trigger_step,
            CrashEnd(trigger_step, d, DfLen(cp.heap[cp.id])), m, sd)

\* EventManager._apply_crash; seed is None or an integer, now is the clock reading
ApplyCrash(h, df, trigger_step, magnitude, duration_steps, price_column, seed, now) ==
    IF trigger_step < 0 \/ trigger_step >= DfLen(h[df]) THEN Returned(h, df)
    ELSE IF magnitude.tag # "num" THEN Raised(h, df)
    ELSE CrashCopy(DfCopy(h, df), price_column, trigger_step,
                   ClampMagnitude(magnitude.v), ClampDuration(duration_steps),
                   IF seed = None THEN TimeSeed(now) ELSE seed.v)

\* multiplier = 1.0 + magnitude, floored at 0.01 when not positive
EarningsMultiplier(magnitude) ==
    IF RLe(RAdd(ROne, magnitude), RZero) THEN EarningsFloor ELSE RAdd(ROne, magnitude)

\* Variant of EarningsPrices: the point at trigger_step is left as it is
EarningsPricesAfterTrigger(old, trigger_step, multiplier) ==
    [i \in 1..Len(old) |-> IF i <= trigger_step + 1 THEN old[i] ELSE PMul(old[i], multiplier)]
        \o <<>>

\* result.iloc[trigger_step:, col] * multiplier
EarningsPrices(old, trigger_step, multiplier) ==
    [i \in 1..Len(old) |-> IF i <= trigger_step THEN old[i] ELSE PMul(old[i], multiplier)]
        \o <<>>

EarningsOn(cp, df, trigger_step, magnitude, price_column) ==
    IF magnitude.tag # "num" THEN Raised(cp.heap, df)
    ELSE Returned(SetColumn(cp.heap, cp.id, price_column,
                      EarningsPrices(cp.heap[cp.id].data[price_column], trigger_step,
                                     EarningsMultiplier(magnitude.v))),
                  cp.id)

\* EventManager._apply_earnings_shock
ApplyEarningsShock(h, df, trigger_step, magnitude, price_column) ==
    IF trigger_step < 0 \/ trigger_step >= DfLen(h[df]) THEN Returned(h, df)
    ELSE EarningsOn(DfCopy(h, df), df, trigger_step, magnitude, price_column)

PriceLikeNames == {"close", "price", "prices"}

\* Variant of ResolveColumn: the first price-like column even when the hinted
\* name exists
ResolveColumnFirstMatch(columns, price_column, price_cols) ==
    IF price_cols # <<>> THEN [name |-> price_cols[1], found |-> TRUE]
    ELSE [name |-> price_column, found |-> InSeq(price_column, columns)]

\* price_cols[0] of line 63-65, or the hint when nothing matches
ResolveColumn(columns, price_column, price_cols) ==
    IF InSeq(price_column, columns) THEN [name |-> price_column, found |-> TRUE]
    ELSE IF price_cols # <<>> THEN [name |-> price_cols[1], found |-> TRUE]
    ELSE [name |-> price_column, found |-> FALSE]

BeginOn(cp, price_column) ==
    [heap |-> cp.heap, result |-> cp.id,
     column |-> ResolveColumn(cp.heap[cp.id].columns, price_column,
                    SelectSeq(cp.heap[cp.id].columns,
                              LAMBDA c : Lower(c) \in PriceLikeNames))]

\* apply_events, lines 58-68: copy the input and resolve the price column
ApplyEventsBegin(h, df, price_column) == BeginOn(DfCopy(h, df), price_column)

\* The rule of one event; event_type is event.type.lower()
Dispatch(h, result, event, event_type, price_column, now) ==
    CASE event_type = "ipo" ->
           ApplyIpo(h, result, event.trigger_step, price_column)
      [] event_type = "crash" ->
           ApplyCrash(h, result, event.trigger_step,
                      PyOr(event.magnitude, Num(DefaultCrashMagnitude)),
                      PyOr(event.duration, IntV(DefaultCrashDuration)).v,
                      price_column, None, now)
      [] event_type = "earnings" ->
           ApplyEarningsShock(h, result, event.trigger_step,
                      PyOr(event.magnitude, Num(DefaultEarningsMagnitude)),
                      price_column)
      [] OTHER -> Returned(h, result)

\* The binding of result after the call r of a rule: rebound when it returned,
\* kept when it raised (the except clause of lines 99-103)
Rebind(result, r) ==
    IF r.raised
    THEN [heap |-> r.heap, result |-> result, outcome |-> "failed", trace |-> NoTrace]
    ELSE [heap |-> r.heap, result |-> r.ret, outcome |-> "applied", trace |-> r.trace]

\* apply_events, lines 71-103: one iteration of the loop over the events.
\* outcome: "applied" (a rule ran and result was rebound), "skipped" (unknown
\* type), "failed" (an exception was caught; result keeps its binding).
LoopBody(h, result, event, price_column, now) ==
    IF event.type.tag # "str"
    THEN [heap |-> h, result |-> result, outcome |-> "failed", trace |-> NoTrace]
    ELSE IF Lower(event.type.v) \notin {"ipo", "crash", "earnings"}
    THEN [heap |-> h, result |-> result, outcome |-> "skipped", trace |-> NoTrace]
    ELSE Rebind(result,
                Dispatch(h, result, event, Lower(event.type.v), price_column, now))

\* Whether this iteration reads the clock (an unseeded crash that gets to seeding)
ReadsClock(h, result, event) ==
    /\ event.type.tag = "str"
    /\ Lower(event.type.v) = "crash"
    /\ event.trigger_step >= 0
    /\ event.trigger_step < DfLen(h[result])
    /\ PyOr(event.magnitude, Num(DefaultCrashMagnitude)).tag = "num"

(***************************************************************************)
(* EventManager on whole lists: the loops of apply_events and              *)
(* apply_events_to_dict run to their end.  nows holds the clock readings   *)
(* still to come, one for every crash that seeds itself from the clock.    *)
(***************************************************************************)
RECURSIVE EventsLoop(_, _, _, _, _)

EventsLoopNext(b, events, price_column, nows) ==
    EventsLoop(b.heap, b.result, events, price_column, nows)

\* apply_events, lines 70-105
EventsLoop(h, result, events, price_column, nows) ==
    IF events = <<>> THEN [heap |-> h, ret |-> result, nows |-> nows]
    ELSE EventsLoopNext(
             LoopBody(h, result, Head(events), price_column,
                      IF nows = <<>> THEN 0 ELSE Head(nows)),
             Tail(events), price_column,
             IF ReadsClock(h, result, Head(events)) THEN Tail(nows) ELSE nows)

ApplyEventsFrom(b, events, nows) ==
    IF ~b.column.found THEN [heap |-> b.heap, ret |-> b.result, nows |-> nows]
    ELSE EventsLoop(b.heap, b.result, events, b.column.name, nows)

\* EventManager.apply_events
ApplyEvents(h, df, events, price_column, nows) ==
    ApplyEventsFrom(ApplyEventsBegin(h, df, price_column), events, nows)

Item(symbol, df) == [symbol |-> symbol, df |-> df]

RECURSIVE ApplyEventsToDict(_, _, _, _, _, _)

DictStore(r, items, symbol, events, price_column, acc) ==
    ApplyEventsToDict(r.heap, items, events, price_column, r.nows,
                      Append(acc, Item(symbol, r.ret)))

\* EventManager.apply_events_to_dict; a dict is the sequence of its items in
\* insertion order, acc the items of the result built so far
ApplyEventsToDict(h, items, events, price_column, nows, acc) ==
    IF items = <<>> THEN [heap |-> h, data_store |-> acc]
    ELSE DictStore(
             ApplyEvents(h, Head(items).df, events, price_column, nows),
             Tail(items), Head(items).symbol, events, price_column, acc)

(***************************************************************************)
(* Price generation (app/services/generator.py, data_generator.py)         *)
(***************************************************************************)
SUPPORTED_FREQUENCIES == {"1m", "5m", "15m", "30m", "1h", "4h", "1d"}

\* SyntheticGenerator.STEPS_PER_DAY
STEPS_PER_DAY ==
    [f \in {"1m", "5m", "15m", "30m", "1h", "4h", "1d"} |->
        CASE f = "1m" -> 1440 [] f = "5m" -> 288 [] f = "15m" -> 96
          [] f = "30m" -> 48 [] f = "1h" -> 24 [] f = "4h" -> 6 [] f = "1d" -> 1]

\* SyntheticGenerator.FREQUENCY_DELTA, in seconds
FREQUENCY_DELTA ==
    [f \in {"1m", "5m", "15m", "30m", "1h", "4h", "1d"} |->
        CASE f = "1m" -> 60 [] f = "5m" -> 300 [] f = "15m" -> 900
          [] f = "30m" -> 1800 [] f = "1h" -> 3600 [] f = "4h" -> 14400
          [] f = "1d" -> 86400]

\* steps_map of calculate_steps_per_day
steps_map ==
    [f \in {"1m", "5m", "15m", "30m", "1h", "4h", "1d"} |->
        CASE f = "1m" -> 1440 [] f = "5m" -> 288 [] f = "15m" -> 96
          [] f = "30m" -> 48 [] f = "1h" -> 24 [] f = "4h" -> 6 [] f = "1d" -> 1]

\* steps_map.get(frequency, 24)
CalculateStepsPerDay(frequency) ==
    IF frequency \in DOMAIN steps_map THEN steps_map[frequency] ELSE 24

\* freq_map.get(frequency, timedelta(hours=1)), in seconds
GetFrequencyTimedelta(frequency) ==
    IF frequency \in DOMAIN FREQUENCY_DELTA THEN FREQUENCY_DELTA[frequency] ELSE 3600

DEFAULT_VOLATILITY == Q(2, 100)
DEFAULT_DRIFT == Q(1, 10000)

\* standard normal variates of a numpy Generator
StandardNormals == <<0, -1, 1>>

\* Variant of DefaultRng: fresh entropy whatever the seed
DefaultRngFresh(seed, entropy) == [seeded |-> FALSE, entropy |-> entropy]

\* np.random.default_rng(seed), seed >= 0 or None: the state of the generator is
\* fixed by the seed, or by fresh entropy of the operating system without one
DefaultRng(seed, entropy) ==
    IF seed = None THEN [seeded |-> FALSE, entropy |-> entropy]
    ELSE [seeded |-> TRUE, entropy |-> seed.v]

\* the k-th variate (k >= 1) of rng.standard_normal(n)
StandardNormal(rng, k) ==
    StandardNormals[Digit(rng.entropy, Len(StandardNormals), k - 1) + 1]

RECURSIVE SumNormals(_, _)
\* np.cumsum over the first j variates
SumNormals(rng, j) ==
    IF j = 0 THEN 0 ELSE StandardNormal(rng, j) + SumNormals(rng, j - 1)

\* The exponent a + b / sqrt(rt), in one form per value
Exp(a, b, rt) ==
    IF b.s = 0 THEN [a |-> a, b |-> RZero, rt |-> 1]
    ELSE IF rt = 1 THEN [a |-> RAdd(a, b), b |-> RZero, rt |-> 1]
    ELSE [a |-> a, b |-> b, rt |-> rt]

\* start_price * exp(cumulative log return after j steps), the log return of a
\* step being a_step + b_unit * Z / sqrt(rt)
GbmPrice(start_price, a_step, b_unit, rt, rng, j) ==
    [nan |-> FALSE, c |-> start_price,
     e |-> Exp(RMul(RInt(j), a_step), RMul(b_unit, RInt(SumNormals(rng, j))), rt)]

\* Variant of GbmPrices: without the start price at index 0
GbmPricesNoStart(start_price, a_step, b_unit, rt, rng, num_steps) ==
    [i \in 1..num_steps |-> GbmPrice(start_price, a_step, b_unit, rt, rng, i)] \o <<>>

\* prices[0] = start_price, prices[1:] = start_price * np.exp(cumulative_log_returns)
GbmPrices(start_price, a_step, b_unit, rt, rng, num_steps) ==
    [i \in 1..(num_steps + 1) |-> GbmPrice(start_price, a_step, b_unit, rt, rng, i - 1)]
        \o <<>>

\* generate_gbm_prices with dt = 1.0 / steps_per_day
GenerateGbmPrices(start_price, num_steps, steps_per_day, seed, drift, volatility) ==
    GbmPrices(start_price,
              RDiv(RSub(drift, RMul(Q(1, 2), RMul(volatility, volatility))),
                   RInt(steps_per_day)),
              volatility, steps_per_day, DefaultRng(IntV(seed), 0), num_steps)

\* datetime.now(timezone.utc).replace(second=0, microsecond=0), in seconds
StartTime(now) == (now \div (60 * 1000)) * 60

\* [start_time + i * delta for i in range(num_steps + 1)]
GenerateTimestamps(start_time, num_steps, delta) ==
    [i \in 1..(num_steps + 1) |-> start_time + (i - 1) * delta] \o <<>>

\* SyntheticGenerator._scale_parameters and lines 143-155 of generate_path: the
\* log return of a step is (mu_adjusted - 0.5 * sigma_adjusted^2) +
\* sigma_adjusted * Z with mu_adjusted = mu_daily / steps_per_day *
\* drift_multiplier and sigma_adjusted = sigma_daily / sqrt(steps_per_day) *
\* volatility_multiplier
PathStepDrift(mu_daily, sigma_daily, drift_mult, volatility_mult, steps_per_day) ==
    RSub(RMul(RDiv(mu_daily, RInt(steps_per_day)), drift_mult),
         RMul(Q(1, 2),
              RDiv(RMul(RMul(sigma_daily, volatility_mult),
                        RMul(sigma_daily, volatility_mult)),
                   RInt(steps_per_day))))

PathOn(base_params, config, seed, rng, steps_per_day, now) ==
    [base_params |-> base_params, config |-> config, seed |-> seed,
     raised |-> FALSE, rng |-> rng,
     Close |-> GbmPrices(base_params.last_price,
                   PathStepDrift(base_params.mu, base_params.sigma,
                                 config.drift_multiplier, config.volatility_multiplier,
                                 steps_per_day),
                   RMul(base_params.sigma, config.volatility_multiplier),
                   steps_per_day, rng, steps_per_day * config.horizon_days),
     Timestamp |-> GenerateTimestamps(StartTime(now),
                       steps_per_day * config.horizon_days,
                       FREQUENCY_DELTA[config.frequency])]

PathRaised(base_params, config, seed) ==
    [base_params |-> base_params, config |-> config, seed |-> seed,
     raised |-> TRUE, rng |-> None, Close |-> <<>>,
     Timestamp |-> <<>>]

\* SyntheticGenerator.generate_path: ValueError for an unsupported frequency,
\* (from default_rng) for a negative seed and (from rng.standard_normal) for a
\* negative total_steps
GeneratePathCall(base_params, config, seed, entropy, now) ==
    IF config.frequency \notin SUPPORTED_FREQUENCIES
    THEN PathRaised(base_params, config, seed)
    ELSE IF seed # None /\ seed.v < 0 THEN PathRaised(base_params, config, seed)
    ELSE IF STEPS_PER_DAY[config.frequency] * config.horizon_days < 0
    THEN PathRaised(base_params, config, seed)
    ELSE PathOn(base_params, config, seed, DefaultRng(seed, entropy),
                STEPS_PER_DAY[config.frequency], now)

\* pd.DataFrame({"timestamp": timestamp_strings, "price": prices})
AssetFrame(timestamps, prices) ==
    DataFrame(<<"timestamp", "price">>,
              [c \in {"timestamp", "price"} |->
                  IF c = "timestamp" THEN timestamps ELSE prices])

RECURSIVE BuildDataStore(_, _, _, _, _, _)
\* generate_dataset, lines 197-214, for the assets after the first i
BuildDataStore(h, request, timestamps, steps_per_day, i, acc) ==
    IF i = Len(request.assets) THEN [heap |-> h, data_store |-> acc]
    ELSE BuildDataStore(
             Append(h, AssetFrame(timestamps,
                          GenerateGbmPrices(request.assets[i + 1].start_price,
                              steps_per_day * request.horizon_days, steps_per_day,
                              request.seed + i * 1000,
                              DEFAULT_DRIFT, DEFAULT_VOLATILITY))),
             request, timestamps, steps_per_day, i + 1,
             Append(acc, Item(request.assets[i + 1].symbol, Len(h) + 1)))

\* generate_dataset, lines 216-221
WithEvents(b, request, nows) ==
    IF request.events # <<>>
    THEN ApplyEventsToDict(b.heap, b.data_store, request.events, "price", nows, <<>>)
    ELSE b

DataStoreOf(h, request, steps_per_day, now, nows) ==
    WithEvents(
        BuildDataStore(h, request,
            GenerateTimestamps(StartTime(now), steps_per_day * request.horizon_days,
                               GetFrequencyTimedelta(request.frequency)),
            steps_per_day, 0, <<>>),
        request, nows)

\* generate_dataset up to the data_store it stores; it raises ValueError for an
\* unsupported frequency and (from default_rng) for a negative asset seed
GenerateDataset(h, request, now, nows) ==
    IF \/ request.frequency \notin SUPPORTED_FREQUENCIES
       \/ \E i \in 0..(Len(request.assets) - 1) : request.seed + i * 1000 < 0
    THEN [raised |-> TRUE, heap |-> h, data_store |-> <<>>]
    ELSE [raised |-> FALSE] @@
         DataStoreOf(h, request, CalculateStepsPerDay(request.frequency), now, nows)

\* DatasetRecord(...) of lines 256-267
DatasetRecord(dataset_id, request, data) ==
    [dataset_id |-> dataset_id, project |-> request.project,
     assets |-> [i \in 1..Len(request.assets) |-> request.assets[i].symbol],
     frequency |-> request.frequency, horizon_days |-> request.horizon_days,
     seed |-> request.seed,
     total_rows |-> CalculateStepsPerDay(request.frequency) * request.horizon_days + 1,
     data |-> data]

\* The crashes of a request that seed themselves from the clock: one reading
\* for each on every asset
ClockReads(request) ==
    LET rows == [i \in 1..(CalculateStepsPerDay(request.frequency)
                             * request.horizon_days + 1) |-> NaN]
    IN  Len(request.assets) *
        Cardinality({k \in 1..Len(request.events) :
            ReadsClock(<<AssetFrame(rows, rows)>>, 1, request.events[k])})

(***************************************************************************)
(* Inputs of the model                                                     *)
(***************************************************************************)
\* Length of the short input series
SeriesLen == 4
\* Longest event list applied to the short series
MaxEvents == 2
\* Largest clock reading (milliseconds)
MaxClock == 17

Ev(type, trigger_step, magnitude, duration) ==
    [type |-> type, trigger_step |-> trigger_step, magnitude |-> magnitude,
     duration |-> duration]
Ipo(t) == Ev(Str("ipo"), t, None, None)
Earnings(t, m) == Ev(Str("earnings"), t, m, None)
Crash(t, m, d) == Ev(Str("crash"), t, m, d)

Timestamps(n) == [i \in 1..n |-> (i - 1) * 3600]
Constant(n, r) == [i \in 1..n |-> Price(r)]

\* The caller's DataFrames; they sit at the bottom of the heap.
Pool ==
    << DataFrame(<<"timestamp", "price">>,
                 [c \in {"timestamp", "price"} |->
                    IF c = "timestamp" THEN Timestamps(SeriesLen)
                    ELSE Constant(SeriesLen, RInt(100))]),
       DataFrame(<<"Close">>,
                 [c \in {"Close"} |-> [i \in 1..SeriesLen |-> Price(RInt(50 * i))]]),
       DataFrame(<<"other_column">>,
                 [c \in {"other_column"} |-> Constant(SeriesLen, RInt(100))]),
       DataFrame(<<"volume", "PRICE", "close">>,
                 [c \in {"volume", "PRICE", "close"} |->
                    IF c = "volume" THEN Constant(SeriesLen, RInt(7))
                    ELSE IF c = "PRICE" THEN Constant(SeriesLen, RInt(100))
                    ELSE Constant(SeriesLen, RInt(300))]),
       DataFrame(<<"timestamp", "price">>,
                 [c \in {"timestamp", "price"} |->
                    IF c = "timestamp" THEN Timestamps(30)
                    ELSE Constant(30, RInt(100))]),
       DataFrame(<<"price">>, [c \in {"price"} |-> Constant(10, RInt(100))]),
       DataFrame(<<"price">>, [c \in {"price"} |-> Constant(10, RInt(200))]) >>

\* Events tried on the short series
IpoEvents == {Ipo(t) : t \in {-1, 0, 2, SeriesLen}} \cup {Ev(Str("IPO"), 1, None, None)}
EarningsEvents ==
    {Earnings(1, Num(Q(1, 5))), Earnings(1, Num(RZero)), Earnings(2, Num(Q(-3, 2))),
     Earnings(0, None), Earnings(SeriesLen, Num(Q(1, 5))), Earnings(-1, Num(Q(1, 5)))}
CrashEvents ==
    {Crash(1, Num(Q(3, 10)), IntV(1)), Crash(SeriesLen - 2, Num(Q(1, 2)), IntV(2)),
     Crash(1, None, None), Crash(0, Num(Q(-1, 2)), IntV(1)),
     Crash(SeriesLen - 2, Num(Q(3, 2)), IntV(2)), Crash(SeriesLen, Num(Q(3, 10)), IntV(1)),
     Crash(-1, Num(Q(1, 2)), IntV(1)), Crash(1, Num(RZero), IntV(1))}
MalformedEvents ==
    {Ev(Str("split"), 1, Num(Q(1, 2)), None), Ev(None, 1, None, None),
     Earnings(1, Str("abc")), Crash(1, Str("abc"), IntV(1))}
ShortEvents == IpoEvents \cup EarningsEvents \cup CrashEvents \cup MalformedEvents
\* Events combined into longer lists
CoreEvents ==
    {Ipo(2), Earnings(1, Num(Q(1, 5))), Earnings(2, Num(Q(-3, 2))),
     Crash(1, Num(Q(3, 10)), IntV(1)), Crash(SeriesLen, Num(Q(3, 10)), IntV(1)),
     Ev(Str("split"), 1, Num(Q(1, 2)), None), Earnings(1, Str("abc"))}

Lists(S, n) == UNION {[1..k -> S] : k \in 0..n}

\* apply_events calls: (df, events, price_column)
Call(df, events, price_column) ==
    [df |-> df, events |-> events, price_column |-> price_column]
Calls ==
    {Call(1, es, "price") : es \in Lists(ShortEvents, 1) \cup Lists(CoreEvents, MaxEvents)}
    \cup {Call(2, es, c) : es \in Lists(ShortEvents, 1), c \in {"price", "Close"}}
    \cup {Call(df, es, "price") : df \in {3, 4}, es \in Lists(ShortEvents, 1)}
    \cup {Call(4, es, "close") : es \in Lists(ShortEvents, 1)}
    \cup {Call(5, es, "price") :
            es \in {<<Earnings(10, Num(Q(1, 5))), Crash(20, Num(Q(3, 10)), IntV(5))>>,
                    <<Ipo(10), Earnings(15, Num(Q(1, 10)))>>}}

\* apply_events_to_dict calls: (data_store, events, price_column); a data_store is
\* the sequence of its (symbol, df) items in insertion order
DictCalls ==
    {[data_store |-> <<Item("AAPL", 6), Item("GOOGL", 7)>>, events |-> es,
      price_column |-> "price"] :
        es \in {<<>>, <<Earnings(5, Num(Q(1, 10)))>>,
                <<Ipo(3), Crash(8, Num(Q(3, 10)), IntV(2))>>}}
    \cup {[data_store |-> <<Item("X", 1), Item("Y", 2), Item("Z", 3)>>, events |-> es,
           price_column |-> "price"] : es \in Lists(ShortEvents, 1)}

(***************************************************************************)
(* Rate limiting (app/security.py, app/store.py)                           *)
(***************************************************************************)
RATE_LIMIT_REQUESTS == 10
RATE_LIMIT_WINDOW_SECONDS == 60

\* A datetime: seconds, and whether it carries a timezone
Datetime(t, aware) == [t |-> t, aware |-> aware]
\* datetime.utcnow(): naive
utcnow(t) == Datetime(t, FALSE)
\* store._utc_now(), datetime.now(timezone.utc): aware
utc_now(t) == Datetime(t, TRUE)
\* a >= b, a > b and a - b raise TypeError for a naive and an aware datetime
Comparable(a, b) == a.aware = b.aware

RateLimitRecord(request_count, window_start) ==
    [request_count |-> request_count, window_start |-> window_start]

\* store.get_rate_limit_record: the store after it; the record is at api_key
GetRateLimitRecord(limits, api_key, t) ==
    IF limits[api_key] = None
    THEN [limits EXCEPT ![api_key] = RateLimitRecord(0, utc_now(t))]
    ELSE limits

RateRaised(limits) == [rate_limits |-> limits, raised |-> TRUE, value |-> None]
RateReturned(limits, value) == [rate_limits |-> limits, raised |-> FALSE, value |-> value]

\* RateLimiter.check_and_update, lines 56-74, on the record fetched
CheckAndUpdateOn(limits, api_key, record, now, window_end) ==
    IF ~Comparable(now, record.window_start) THEN RateRaised(limits)
    ELSE IF now.t >= window_end
    THEN RateReturned([limits EXCEPT ![api_key] = RateLimitRecord(1, now)],
                      <<TRUE, RATE_LIMIT_REQUESTS - 1, 0>>)
    ELSE IF record.request_count >= RATE_LIMIT_REQUESTS
    THEN RateReturned(limits, <<FALSE, 0, (window_end - now.t) + 1>>)
    ELSE RateReturned(
             [limits EXCEPT ![api_key] =
                 RateLimitRecord(record.request_count + 1, record.window_start)],
             <<TRUE, RATE_LIMIT_REQUESTS - (record.request_count + 1), 0>>)

\* RateLimiter.check_and_update at time t
CheckAndUpdate(limits, api_key, t) ==
    CheckAndUpdateOn(GetRateLimitRecord(limits, api_key, t), api_key,
                     GetRateLimitRecord(limits, api_key, t)[api_key], utcnow(t),
                     GetRateLimitRecord(limits, api_key, t)[api_key].window_start.t
                         + RATE_LIMIT_WINDOW_SECONDS)

\* RateLimiter.get_status, lines 86-94, on the record fetched
GetStatusOn(limits, record, now, window_end) ==
    IF ~Comparable(now, record.window_start) THEN RateRaised(limits)
    ELSE IF now.t >= window_end
    THEN RateReturned(limits, <<RATE_LIMIT_REQUESTS, RATE_LIMIT_REQUESTS>>)
    ELSE RateReturned(limits,
             <<IF RATE_LIMIT_REQUESTS - record.request_count > 0
               THEN RATE_LIMIT_REQUESTS - record.request_count ELSE 0,
               RATE_LIMIT_REQUESTS>>)

\* RateLimiter.get_status at time t
GetStatus(limits, api_key, t) ==
    GetStatusOn(GetRateLimitRecord(limits, api_key, t),
                GetRateLimitRecord(limits, api_key, t)[api_key], utcnow(t),
                GetRateLimitRecord(limits, api_key, t)[api_key].window_start.t
                    + RATE_LIMIT_WINDOW_SECONDS)

\* The keys APIKeyValidator.is_valid accepts: config.VALID_API_KEYS and the keys
\* added to the store
ApiKeys == {"key_a", "key_b"}

\* verify_api_key_status
VerifyApiKeyStatus(limits, api_key, t) ==
    IF api_key \notin ApiKeys
    THEN RateReturned(limits, <<FALSE, 0, RATE_LIMIT_REQUESTS>>)
    ELSE IF GetStatus(limits, api_key, t).raised THEN GetStatus(limits, api_key, t)
    ELSE RateReturned(GetStatus(limits, api_key, t).rate_limits,
                      <<TRUE>> \o GetStatus(limits, api_key, t).value)

(***************************************************************************)
(* Market parameter cache (app/services/market_profiler.py)                *)
(***************************************************************************)
CACHE_TTL_SECONDS == 3600

\* str.upper() on the symbols and regions of the calls
Upper(symbol) == IF symbol = "aapl" THEN "AAPL" ELSE symbol

\* MarketProfiler._get_cache_key: f"{region}:{symbol.upper()}"
GetCacheKey(symbol, region) == <<region, Upper(symbol)>>

\* The market_params of lines 214-222 for the price series fetched; mu, sigma and
\* last_price are those of the series
MarketParameters(price_series, symbol, region, now) ==
    [series |-> price_series, symbol |-> Upper(symbol), region |-> Upper(region),
     fetched_at |-> now]

CacheEntry(parameters, expires_at) ==
    [parameters |-> parameters, expires_at |-> expires_at]

\* get_parameters from the fetch on (lines 209-231); history is what fetch_history
\* returns, or None when it raises AssetNotFound
FetchParameters(c, symbol, region, now, history) ==
    IF history = None
    THEN [cache |-> c, raised |-> TRUE, value |-> None, fetched |-> TRUE]
    ELSE [cache |-> [c EXCEPT ![GetCacheKey(symbol, region)] =
                        CacheEntry(MarketParameters(history, symbol, region, now),
                                   now + CACHE_TTL_SECONDS)],
          raised |-> FALSE, value |-> MarketParameters(history, symbol, region, now),
          fetched |-> TRUE]

\* Variant of GetParameters: an entry is served up to and including its expiry
GetParametersLate(c, symbol, region, use_cache, now, history) ==
    IF /\ use_cache
       /\ c[GetCacheKey(symbol, region)] # None
       /\ c[GetCacheKey(symbol, region)].expires_at >= now
    THEN [cache |-> c, raised |-> FALSE,
          value |-> c[GetCacheKey(symbol, region)].parameters, fetched |-> FALSE]
    ELSE FetchParameters(c, symbol, region, now, history)

\* MarketProfiler.get_parameters
GetParameters(c, symbol, region, use_cache, now, history) ==
    IF /\ use_cache
       /\ c[GetCacheKey(symbol, region)] # None
       /\ c[GetCacheKey(symbol, region)].expires_at > now
    THEN [cache |-> c, raised |-> FALSE,
          value |-> c[GetCacheKey(symbol, region)].parameters, fetched |-> FALSE]
    ELSE FetchParameters(c, symbol, region, now, history)

\* The cache keys of the get_parameters calls
CacheKeys == {<<"US", "AAPL">>, <<"US", "MSFT">>}

(***************************************************************************)
(* State                                                                   *)
(***************************************************************************)
VARIABLES
    heap,       \* the DataFrame objects, by identity (index)
    clock,      \* last reading of time.time(), in milliseconds
    pc,         \* "idle", "loop", "done", "dict_done"
    args,       \* arguments of the running apply_events call
    price_col,  \* apply_events: the resolved price_column
    found,      \* apply_events: whether a price column was found
    result,     \* apply_events: the object bound to result
    idx,        \* apply_events: index of the next event
    hist,       \* apply_events: one record per finished loop iteration
    ret,        \* apply_events: the object returned (0 before the return)
    dargs,      \* arguments of the running apply_events_to_dict call
    dpos,       \* apply_events_to_dict: index of the current item (0: no dict call)
    dout,       \* apply_events_to_dict: the items of the result built so far
    datasets,   \* store._datasets: the records stored, in order of creation
    dataset_counter,    \* store._dataset_counter
    response,   \* the response to the last create-dataset request
    created,    \* the requests answered 201, in order (created[i] made datasets[i])
    paths,      \* one record per generate_path call made
    utc,        \* the time of day, in seconds
    rate_limits,    \* store._rate_limits: the RateLimitRecord of each key, or None
    rate_ret,   \* the last call of the rate limiter and what it returned
    cache,      \* market_profiler._cache: the CacheEntry of each key, or None
    params_ret, \* the last get_parameters call and what it returned
    lookups,    \* one record per frequency lookup made
    runs        \* one record per apply_events call made on float64 prices

eventVars == <<pc, args, price_col, found, result, idx, hist, ret, dargs, dpos, dout>>
storeVars == <<datasets, dataset_counter, response, created>>
serviceVars == <<utc, rate_limits, rate_ret, cache, params_ret, lookups, runs>>
vars == <<heap, clock, pc, args, price_col, found, result, idx, hist, ret,
          dargs, dpos, dout, datasets, dataset_counter, response, created, paths,
          utc, rate_limits, rate_ret, cache, params_ret, lookups, runs>>

NoCall == Call(0, <<>>, "")
NoDictCall == [data_store |-> <<>>, events |-> <<>>, price_column |-> ""]

Init ==
    /\ heap = Pool
    /\ clock = 0
    /\ pc = "idle"
    /\ args = NoCall
    /\ price_col = ""
    /\ found = FALSE
    /\ result = 0
    /\ idx = 0
    /\ hist = <<>>
    /\ ret = 0
    /\ dargs = NoDictCall
    /\ dpos = 0
    /\ dout = <<>>
    /\ datasets = <<>>
    /\ dataset_counter = 0
    /\ response = None
    /\ created = <<>>
    /\ paths = <<>>
    /\ utc = 0
    /\ rate_limits = [k \in ApiKeys |-> None]
    /\ rate_ret = None
    /\ cache = [k \in CacheKeys |-> None]
    /\ params_ret = None
    /\ lookups = <<>>
    /\ runs = <<>>

\* Entering apply_events(df, events, price_column): lines 58-68, and the return
\* of line 68 or of line 105 when there is nothing to loop over.
Enter(c) ==
    \E b \in {ApplyEventsBegin(heap, c.df, c.price_column)} :
    LET over == ~b.column.found \/ c.events = <<>>
    IN  /\ heap' = b.heap
        /\ args' = c
        /\ price_col' = b.column.name
        /\ found' = b.column.found
        /\ result' = b.result
        /\ idx' = 1
        /\ hist' = <<>>
        /\ ret' = IF over THEN b.result ELSE 0
        /\ pc' = IF over THEN "done" ELSE "loop"

ApplyEventsCall ==
    /\ pc = "idle"
    /\ \E c \in Calls : Enter(c)
    /\ UNCHANGED <<clock, dargs, dpos, dout, storeVars, paths, serviceVars>>

\* One iteration of the loop of apply_events on the given event, and the return
\* after the last one; stop_on_failure tells whether a caught exception ends the
\* loop (it does not: the except clause continues)
LoopStep(event, stop_on_failure) ==
    /\ pc = "loop"
    /\ \E now \in clock..MaxClock :
         /\ (~ReadsClock(heap, result, event)) => now = clock
         /\ \E b \in {LoopBody(heap, result, event, price_col, now)} :
            LET last == \/ idx = Len(args.events)
                        \/ stop_on_failure /\ b.outcome = "failed"
            IN  /\ heap' = b.heap
                /\ result' = b.result
                /\ hist' = Append(hist,
                             [event |-> event, outcome |-> b.outcome, now |-> now,
                              before |-> heap[result].data[price_col],
                              after |-> b.heap[b.result].data[price_col],
                              same_object |-> b.result = result,
                              trace |-> b.trace])
                /\ idx' = idx + 1
                /\ ret' = IF last THEN b.result ELSE 0
                /\ pc' = IF last THEN "done" ELSE "loop"
         /\ clock' = now
    /\ UNCHANGED <<args, price_col, found, dargs, dpos, dout, storeVars, paths, serviceVars>>

\* Variants of ApplyEventsStep: the list taken from its end; a caught exception
\* ending the loop
ApplyEventsStepReversed == LoopStep(args.events[Len(args.events) + 1 - idx], FALSE)
ApplyEventsStepBreaks == LoopStep(args.events[idx], TRUE)

ApplyEventsStep == LoopStep(args.events[idx], FALSE)

\* apply_events_to_dict: the call, which enters apply_events for the first item
ApplyEventsToDictCall ==
    /\ pc = "idle"
    /\ \E d \in DictCalls :
         /\ dargs' = d
         /\ dout' = <<>>
         /\ IF d.data_store = <<>>
            THEN /\ dpos' = 0
                 /\ pc' = "dict_done"
                 /\ UNCHANGED <<heap, args, price_col, found, result, idx, hist, ret>>
            ELSE /\ dpos' = 1
                 /\ Enter(Call(d.data_store[1].df, d.events, d.price_column))
    /\ UNCHANGED <<clock, storeVars, paths, serviceVars>>

\* Variant of ApplyEventsToDictNext: the next item starts from the result of the
\* item before it
ApplyEventsToDictNextChained ==
    /\ pc = "done"
    /\ dpos > 0
    /\ dout' = Append(dout, Item(dargs.data_store[dpos].symbol, ret))
    /\ IF dpos = Len(dargs.data_store)
       THEN /\ pc' = "dict_done"
            /\ dpos' = dpos
            /\ UNCHANGED <<heap, args, price_col, found, result, idx, hist, ret>>
       ELSE /\ dpos' = dpos + 1
            /\ Enter(Call(ret, dargs.events, dargs.price_column))
    /\ UNCHANGED <<clock, dargs, storeVars, paths, serviceVars>>

\* apply_events_to_dict: apply_events has returned for the current item; store
\* its result and go on to the next item, or return
ApplyEventsToDictNext ==
    /\ pc = "done"
    /\ dpos > 0
    /\ dout' = Append(dout, Item(dargs.data_store[dpos].symbol, ret))
    /\ IF dpos = Len(dargs.data_store)
       THEN /\ pc' = "dict_done"
            /\ dpos' = dpos
            /\ UNCHANGED <<heap, args, price_col, found, result, idx, hist, ret>>
       ELSE /\ dpos' = dpos + 1
            /\ Enter(Call(dargs.data_store[dpos + 1].df, dargs.events,
                          dargs.price_column))
    /\ UNCHANGED <<clock, dargs, storeVars, paths, serviceVars>>

Next ==
    \/ ApplyEventsCall
    \/ ApplyEventsStep
    \/ ApplyEventsToDictCall
    \/ ApplyEventsToDictNext

Spec == Init /\ [][Next]_vars

(***************************************************************************)
(* Dataset creation (app/routers/v1.py, app/services/data_generator.py)    *)
(***************************************************************************)
\* Most datasets created
MaxDatasets == 2
\* Largest clock reading (milliseconds) while datasets are created
MaxDatasetClock == 2

Asset(symbol, start_price) == [symbol |-> symbol, start_price |-> start_price]
Request(assets, frequency, horizon_days, seed, events) ==
    [project |-> "p", assets |-> assets, frequency |-> frequency,
     horizon_days |-> horizon_days, seed |-> seed, events |-> events]

OneAsset == <<Asset("AAPL", RInt(100))>>
TwoAssets == <<Asset("AAPL", RInt(100)), Asset("GOOGL", RInt(200))>>
DatasetEvents ==
    {<<>>, <<Earnings(1, Num(Q(1, 10)))>>, <<Crash(1, Num(Q(1, 20)), IntV(1))>>,
     <<Ipo(1), Crash(2, Num(Q(3, 10)), None)>>}
Requests ==
    {Request(OneAsset, "1d", 2, 1, es) : es \in DatasetEvents}
    \cup {Request(TwoAssets, "1d", 2, 1, es) :
            es \in {<<>>, <<Earnings(1, Num(Q(1, 10)))>>,
                    <<Crash(1, Num(Q(1, 20)), IntV(1))>>}}
    \cup {Request(OneAsset, f, 1, sd, es) :
            f \in {"1d", "4h"}, sd \in {1, 2},
            es \in {<<>>, <<Ipo(1), Crash(2, Num(Q(3, 10)), None)>>}}
    \cup {Request(OneAsset, "2h", 1, 1, <<>>),
          Request(<<Asset("AAPL", RInt(100)), Asset("AAPL", RInt(50))>>, "1d", 1, 1, <<>>),
          Request(OneAsset, "1d", 1, -1, <<>>)}

\* The readings of the clock a request can make: k of them from the reading
\* from on, none before the one it follows
NowSeqs(from, k) ==
    {s \in [1..k -> from..MaxDatasetClock] :
        \A i \in 1..(k - 1) : s[i] <= s[i + 1]}

\* Variant of BadRequest: the failed request has taken a dataset id
BadRequestTakesId(detail) ==
    /\ response' = [status_code |-> 400, detail |-> detail]
    /\ dataset_counter' = dataset_counter + 1
    /\ UNCHANGED <<heap, clock, datasets, created>>

\* raise HTTPException(status_code=400, detail=...): nothing is generated or stored
BadRequest(detail) ==
    /\ response' = [status_code |-> 400, detail |-> detail]
    /\ UNCHANGED <<heap, clock, datasets, dataset_counter, created>>

\* generate_dataset stores the record: store.generate_dataset_id, store_dataset
Created(g, request, nows) ==
    /\ heap' = g.heap
    /\ clock' = IF nows = <<>> THEN clock ELSE nows[Len(nows)]
    /\ dataset_counter' = dataset_counter + 1
    /\ datasets' = Append(datasets,
                          DatasetRecord(dataset_counter + 1, request, g.data_store))
    /\ response' = [status_code |-> 201, dataset_id |-> dataset_counter + 1]
    /\ created' = Append(created, request)

\* POST /v1/datasets/create
CreateDataset ==
    /\ Len(datasets) < MaxDatasets
    /\ \E request \in Requests :
         IF request.frequency \notin SUPPORTED_FREQUENCIES
         THEN BadRequest("Invalid frequency")
         ELSE IF Len(request.assets) = 0
         THEN BadRequest("At least one asset is required.")
         ELSE IF \E i, j \in 1..Len(request.assets) :
                    i # j /\ request.assets[i].symbol = request.assets[j].symbol
         THEN BadRequest("Duplicate asset symbols are not allowed.")
         ELSE \E nows \in NowSeqs(clock, ClockReads(request)) :
                \E g \in {GenerateDataset(heap, request, clock, nows)} :
                   IF g.raised THEN BadRequest("ValueError")
                   ELSE Created(g, request, nows)
    /\ UNCHANGED <<eventVars, paths, serviceVars>>

NextDataset == CreateDataset

SpecDataset == Init /\ [][NextDataset]_vars

(***************************************************************************)
(* Path generation (app/services/generator.py)                             *)
(***************************************************************************)
\* Most generate_path calls
MaxPaths == 3

BaseParams ==
    {[mu |-> Q(5, 10000), sigma |-> Q(2, 100), last_price |-> RInt(100)],
     [mu |-> RZero, sigma |-> Q(1, 100), last_price |-> RInt(50)]}
Config(frequency, horizon_days, volatility_multiplier, drift_multiplier) ==
    [frequency |-> frequency, horizon_days |-> horizon_days,
     volatility_multiplier |-> volatility_multiplier,
     drift_multiplier |-> drift_multiplier]
Configs == {Config("1d", 2, ROne, ROne), Config("4h", 1, RInt(2), Q(1, 2))}
PathSeeds == {IntV(1), IntV(2), None}
\* What the operating system can hand to an unseeded generator
Entropies == {3, 4}
\* A call with parameters that no request validation has seen
Unchecked(last_price, frequency, horizon_days, seed) ==
    [base_params |-> [mu |-> RZero, sigma |-> Q(1, 100), last_price |-> last_price],
     config |-> Config(frequency, horizon_days, ROne, ROne), seed |-> seed]
PathCalls ==
    {[base_params |-> bp, config |-> cf, seed |-> sd] :
        bp \in BaseParams, cf \in Configs, sd \in PathSeeds}
    \cup {Unchecked(RInt(50), "2h", 1, IntV(1)), Unchecked(RInt(50), "1d", 2, IntV(-1)),
          Unchecked(RInt(50), "1h", 1, IntV(1)), Unchecked(RInt(50), "1d", 0, IntV(1)),
          Unchecked(RInt(50), "1d", -1, IntV(1)), Unchecked(RZero, "1d", 2, IntV(1))}

\* synthetic_generator.generate_path(base_params, config, seed)
GeneratePath ==
    /\ Len(paths) < MaxPaths
    /\ \E c \in PathCalls :
       \E entropy \in IF c.seed = None THEN Entropies ELSE {0} :
         paths' = Append(paths,
                     GeneratePathCall(c.base_params, c.config, c.seed, entropy, clock))
    /\ UNCHANGED <<heap, clock, eventVars, storeVars, serviceVars>>

NextPath == GeneratePath

SpecPath == Init /\ [][NextPath]_vars

(***************************************************************************)
(* Rate limiting: the calls                                                *)
(***************************************************************************)
\* Latest time of day while the rate limiter is called
MaxRateClock == 120
\* The times that can pass between two calls
RateElapse == {20, 39, 40}

\* The last rate limiter call: its name, key, time, the store before it, and
\* its outcome
RateCall(op, api_key, r) ==
    /\ rate_limits' = r.rate_limits
    /\ rate_ret' = [op |-> op, api_key |-> api_key, now |-> utc, before |-> rate_limits,
                    raised |-> r.raised, value |-> r.value]
    /\ UNCHANGED <<heap, clock, eventVars, storeVars, paths, utc, cache, params_ret, lookups, runs>>

RateTick ==
    /\ \E d \in RateElapse : utc + d <= MaxRateClock /\ utc' = utc + d
    /\ UNCHANGED <<heap, clock, eventVars, storeVars, paths, rate_limits, rate_ret>>
    /\ UNCHANGED <<cache, params_ret, lookups, runs>>

\* rate_limiter.check_and_update(api_key), as check_rate_limit calls it
CheckAndUpdateCall ==
    \E k \in ApiKeys : RateCall("check_and_update", k, CheckAndUpdate(rate_limits, k, utc))

\* rate_limiter.get_status(api_key)
GetStatusCall ==
    \E k \in ApiKeys : RateCall("get_status", k, GetStatus(rate_limits, k, utc))

\* verify_api_key_status(api_key), as POST /v1/apikeys/verify calls it
VerifyApiKeyStatusCall ==
    \E k \in ApiKeys \cup {"no_key"} :
        RateCall("verify_api_key_status", k, VerifyApiKeyStatus(rate_limits, k, utc))

NextRate ==
    \/ RateTick
    \/ CheckAndUpdateCall
    \/ GetStatusCall
    \/ VerifyApiKeyStatusCall

SpecRate == Init /\ [][NextRate]_vars

(***************************************************************************)
(* Market parameter cache: the calls                                       *)
(***************************************************************************)
\* Latest time of day while parameters are asked for
MaxCacheClock == 4800
\* The times that can pass between two calls
CacheElapse == {1200, 2399, 2400}
\* What fetch_history can return: a price series (by name), or None when it
\* raises AssetNotFound
Histories == {Str("history_1"), Str("history_2"), None}
\* get_parameters calls: (symbol, region, use_cache)
ProfileCalls ==
    {[symbol |-> sy, region |-> "US", use_cache |-> uc] :
        sy \in {"AAPL", "aapl", "MSFT"}, uc \in BOOLEAN}

CacheTick ==
    /\ \E d \in CacheElapse : utc + d <= MaxCacheClock /\ utc' = utc + d
    /\ UNCHANGED <<heap, clock, eventVars, storeVars, paths, rate_limits, rate_ret>>
    /\ UNCHANGED <<cache, params_ret, lookups, runs>>

\* market_profiler.get_parameters(symbol, region, use_cache)
GetParametersCall ==
    /\ \E c \in ProfileCalls, history \in Histories :
         \E r \in {GetParameters(cache, c.symbol, c.region, c.use_cache, utc, history)} :
            /\ cache' = r.cache
            /\ params_ret' = [call |-> c, now |-> utc, before |-> cache,
                              raised |-> r.raised, value |-> r.value,
                              fetched |-> r.fetched]
    /\ UNCHANGED <<heap, clock, eventVars, storeVars, paths, utc, rate_limits, rate_ret>>
    /\ UNCHANGED <<lookups, runs>>

NextProfile ==
    \/ CacheTick
    \/ GetParametersCall

SpecProfile == Init /\ [][NextProfile]_vars

(***************************************************************************)
(* Frequency lookups (app/services/data_generator.py, generator.py)        *)
(***************************************************************************)
\* Most lookups made in a row
MaxLookups == 2
\* The frequency strings looked up
Frequencies == SUPPORTED_FREQUENCIES \cup {"2h", "1H", ""}

LookupRaised == [raised |-> TRUE, value |-> 0]
LookupReturned(value) == [raised |-> FALSE, value |-> value]

\* SyntheticGenerator._get_steps_per_day
GetStepsPerDay(frequency) ==
    IF frequency \notin DOMAIN STEPS_PER_DAY THEN LookupRaised
    ELSE LookupReturned(STEPS_PER_DAY[frequency])

\* self.FREQUENCY_DELTA[frequency] of generate_path, in seconds: KeyError for a
\* missing key
FrequencyDelta(frequency) ==
    IF frequency \notin DOMAIN FREQUENCY_DELTA THEN LookupRaised
    ELSE LookupReturned(FREQUENCY_DELTA[frequency])

Lookup(fn, frequency, r) ==
    /\ Len(lookups) < MaxLookups
    /\ lookups' = Append(lookups, [fn |-> fn, frequency |-> frequency,
                                   raised |-> r.raised, value |-> r.value])
    /\ UNCHANGED <<heap, clock, eventVars, storeVars, paths>>
    /\ UNCHANGED <<utc, rate_limits, rate_ret, cache, params_ret, runs>>

\* data_generator.calculate_steps_per_day(frequency)
CalculateStepsPerDayCall ==
    \E f \in Frequencies :
        Lookup("calculate_steps_per_day", f, LookupReturned(CalculateStepsPerDay(f)))

\* data_generator.get_frequency_timedelta(frequency)
GetFrequencyTimedeltaCall ==
    \E f \in Frequencies :
        Lookup("get_frequency_timedelta", f, LookupReturned(GetFrequencyTimedelta(f)))

\* synthetic_generator._get_steps_per_day(frequency)
GetStepsPerDayCall ==
    \E f \in Frequencies : Lookup("_get_steps_per_day", f, GetStepsPerDay(f))

\* synthetic_generator.FREQUENCY_DELTA[frequency]
FrequencyDeltaLookup ==
    \E f \in Frequencies : Lookup("FREQUENCY_DELTA", f, FrequencyDelta(f))

NextFrequency ==
    \/ CalculateStepsPerDayCall
    \/ GetFrequencyTimedeltaCall
    \/ GetStepsPerDayCall
    \/ FrequencyDeltaLookup

SpecFrequency == Init /\ [][NextFrequency]_vars

(***************************************************************************)
(* Events on float64 prices.  Here a price is an IEEE 754 double: a        *)
(* rational whose denominator is a power of two and whose numerator has at *)
(* most 53 bits, and every sum and product is rounded to the nearest       *)
(* double, ties to even, as numpy and Python round it.                     *)
(***************************************************************************)
RECURSIVE BDivFrom(_, _, _, _)
\* limbs 1..i of a \div k for a small k, c being the remainder carried into limb i
BDivFrom(a, k, i, c) ==
    IF i = 0 THEN <<>>
    ELSE BDivFrom(a, k, i - 1, (a[i] + c * Base) % k) \o <<(a[i] + c * Base) \div k>>

BDiv(a, k) == BStrip(BDivFrom(a, k, Len(a), 0))

RECURSIVE BModFrom(_, _, _, _)
BModFrom(a, k, i, c) == IF i = 0 THEN c ELSE BModFrom(a, k, i - 1, (a[i] + c * Base) % k)

BMod(a, k) == BModFrom(a, k, Len(a), 0)

RECURSIVE BPow2(_)
BPow2(k) == IF k < 12 THEN <<2 ^ k>> ELSE BMulLimb(BPow2(k - 12), 4096, 0)

\* floor(a / 2^k)
RECURSIVE BShr(_, _)
BShr(a, k) ==
    IF k = 0 THEN a
    ELSE IF k >= 12 THEN BShr(BDiv(a, 4096), k - 12)
    ELSE BDiv(a, 2 ^ k)

\* The bits to shift out of n, from k on, to leave a numerator of at most
\* bits bits
RECURSIVE ShiftOf(_, _, _)
ShiftOf(n, bits, k) ==
    IF BCmp(n, BPow2(bits + k)) < 0 THEN k ELSE ShiftOf(n, bits, k + 1)

\* sg * n / d with k >= 1 bits shifted out of n (and of the power of two d),
\* rounded to nearest, ties to even: up is the last bit shifted out, exact
\* whether no bit before it was set
Shifted(sg, n, d, k, q, up, exact) ==
    [s |-> sg, d |-> BShr(d, k),
     n |-> IF up /\ (~exact \/ BMod(q, 2) = 1) THEN BAdd(q, <<1>>) ELSE q]

\* sg * n / d rounded to a numerator of at most bits bits
FRoundTo(bits, sg, n, d, k) ==
    IF k = 0 THEN [s |-> sg, n |-> n, d |-> d]
    ELSE Shifted(sg, n, d, k, BShr(n, k), BMod(BShr(n, k - 1), 2) = 1,
                 BCmp(BMul(BShr(n, k - 1), BPow2(k - 1)), n) = 0)

\* The float64 nearest to the real r (of magnitude between 2^-900 and 2^53)
FRound(r) ==
    IF r.s = 0 THEN RZero ELSE FRoundTo(53, r.s, r.n, r.d, ShiftOf(r.n, 53, 0))

\* float * float and float + float
FMul(fa, fb) == CHOOSE v \in {FRound(RMul(fa, fb))} : TRUE
FAdd(fa, fb) == CHOOSE v \in {FRound(RAdd(fa, fb))} : TRUE

\* The double sg * n / 2^k
Dbl(sg, n, k) == [s |-> sg, n |-> n, d |-> BPow2(k)]
\* The float literals 1.0, 0.1 (the default magnitude of line 92) and 0.01
FloatOne == Dbl(1, <<1>>, 0)
FloatTenth == Dbl(1, <<6397, 189, 8797, 3602>>, 55)
FloatHundredth == Dbl(1, <<4235, 2303, 6075, 5764>>, 59)

\* prices * multiplier on float64, NaN propagating
FloatPMul(p, k) == IF p.nan THEN NaN ELSE [p EXCEPT !.c = FMul(p.c, k)]

\* multiplier = 1.0 + magnitude, 0.01 when not positive (lines 284-288)
FloatEarningsMultiplier(magnitude) ==
    IF RLe(FAdd(FloatOne, magnitude), RZero) THEN FloatHundredth
    ELSE FAdd(FloatOne, magnitude)

\* Variant of FloatEarningsPrices: a gap of fixed size, (multiplier - 1) times
\* the price at trigger_step, added to every point from trigger_step on
FloatEarningsPricesGap(old, trigger_step, multiplier) ==
    [i \in 1..Len(old) |->
        IF i <= trigger_step THEN old[i]
        ELSE IF old[i].nan \/ old[trigger_step + 1].nan THEN NaN
        ELSE [old[i] EXCEPT !.c =
                 FAdd(old[i].c, FMul(old[trigger_step + 1].c,
                                     FAdd(multiplier, RNeg(FloatOne))))]] \o <<>>

\* result.iloc[trigger_step:, col] * multiplier on float64
FloatEarningsPrices(old, trigger_step, multiplier) ==
    [i \in 1..Len(old) |->
        IF i <= trigger_step THEN old[i] ELSE FloatPMul(old[i], multiplier)] \o <<>>

\* One iteration of the loop of apply_events for an ipo or an earnings event
\* with a numeric or absent magnitude, on the price column
FloatRule(prices, event) ==
    IF event.trigger_step < 0 \/ event.trigger_step >= Len(prices) THEN prices
    ELSE IF Lower(event.type.v) = "ipo" THEN IpoPrices(prices, event.trigger_step)
    ELSE FloatEarningsPrices(prices, event.trigger_step,
             FloatEarningsMultiplier(PyOr(event.magnitude, Num(FloatTenth)).v))

RECURSIVE FloatApplyEvents(_, _)
\* apply_events on the price column, the events applied in list order
FloatApplyEvents(prices, events) ==
    IF events = <<>> THEN prices
    ELSE FloatApplyEvents(FloatRule(prices, Head(events)), Tail(events))

\* Most apply_events calls made on float64 prices
MaxRuns == 2
\* The price column of the calls: 100.0 at every step
FloatPrices == Constant(SeriesLen, RInt(100))
\* The events of the calls: (earnings, 0.1), (earnings, 0.25), (earnings, -1.5),
\* an earnings event past the end of the series, and an ipo
FloatEvents ==
    << Earnings(1, Num(FloatTenth)), Earnings(2, Num(Dbl(1, <<1>>, 2))),
       Earnings(1, Num(Dbl(-1, <<3>>, 1))), Earnings(SeriesLen, None), Ipo(2) >>
\* The event lists of the calls: every ordered pair of events
FloatCalls ==
    [i \in 1..(Len(FloatEvents) * Len(FloatEvents)) |->
        <<FloatEvents[((i - 1) \div Len(FloatEvents)) + 1],
          FloatEvents[((i - 1) % Len(FloatEvents)) + 1]>>] \o <<>>
\* What apply_events returns for each of them
FloatOutputs ==
    [i \in 1..Len(FloatCalls) |-> FloatApplyEvents(FloatPrices, FloatCalls[i])] \o <<>>

\* event_manager.apply_events(df, events) on a float64 price column
ApplyEventsFloatCall ==
    /\ Len(runs) < MaxRuns
    /\ \E i \in 1..Len(FloatCalls) :
         runs' = Append(runs, [prices |-> FloatPrices, events |-> FloatCalls[i],
                               out |-> FloatOutputs[i]])
    /\ UNCHANGED <<heap, clock, eventVars, storeVars, paths>>
    /\ UNCHANGED <<utc, rate_limits, rate_ret, cache, params_ret, lookups>>

NextFloat == ApplyEventsFloatCall

SpecFloat == Init /\ [][NextFloat]_vars

(***************************************************************************)
(* Properties of EventManager                                              *)
(***************************************************************************)
\* The prices of the caller's DataFrame df, in the column apply_events resolved
InputPrices == Pool[args.df].data[price_col]
\* The prices of the object apply_events returned
ReturnedPrices == heap[ret].data[price_col]

\* C1: apply_events and apply_events_to_dict never change the series they are
\* given, and what they return is an object of its own: every DataFrame of the
\* caller keeps its contents for ever, and the object returned by apply_events,
\* and every object in the dictionary built by apply_events_to_dict, is none of
\* the caller's.
C1_InputNotMutated ==
    /\ \A i \in 1..Len(Pool) : heap[i] = Pool[i]
    /\ pc = "done" => ret \notin 1..Len(Pool)
    /\ \A k \in 1..Len(dout) : dout[k].df \notin 1..Len(Pool)

\* A dictionary call has returned, and an event has changed the prices of one of
\* its series
C1_Witness ==
    /\ pc = "dict_done"
    /\ \E k \in 1..Len(dout) :
         /\ dout[k].symbol = dargs.data_store[k].symbol
         /\ heap[dout[k].df].data # Pool[dargs.data_store[k].df].data

\* The prices the rule of one event gives on the series before, with the clock
\* reading now
RuleOn(before, event, now) ==
    LET r == LoopBody(<<DataFrame(<<"price">>, [c \in {"price"} |-> before])>>, 1,
                      event, "price", now)
    IN  r.heap[r.result].data["price"]

ExampleEvents == <<Earnings(10, Num(Q(1, 5))), Crash(20, Num(Q(3, 10)), IntV(5))>>

\* C2: the events are applied in the order of the list, each to the result of
\* the ones before it: the k-th iteration handles the k-th event, starts from the
\* input (k = 1) or from the result of iteration k - 1, and yields what the rule
\* of that event gives there; the series returned is the result of the last
\* iteration. On a constant series of 100 with 30 points, earnings (step 10,
\* +0.2) then crash (step 20, 0.3, 5 steps) gives 100 at index 9, 120 at index
\* 10 and less than 100 at the last index.
C2_AppliedInListOrder ==
    /\ \A k \in 1..Len(hist) :
         /\ hist[k].event = args.events[k]
         /\ SeriesEq(hist[k].before,
                     IF k = 1 THEN InputPrices ELSE hist[k - 1].after)
         /\ SeriesEq(hist[k].after, RuleOn(hist[k].before, hist[k].event, hist[k].now))
    /\ (pc = "done" /\ found /\ args.events # <<>>) =>
         /\ Len(hist) = Len(args.events)
         /\ SeriesEq(ReturnedPrices, hist[Len(hist)].after)
    /\ (pc = "done" /\ args.df = 5 /\ args.events = ExampleEvents) =>
         /\ PEq(ReturnedPrices[10], Price(RInt(100)))
         /\ PEq(ReturnedPrices[11], Price(RInt(120)))
         /\ ~ReturnedPrices[30].nan
         /\ RLt(ReturnedPrices[30].c, RInt(100))

\* The example call has returned
C2_Witness ==
    /\ pc = "done"
    /\ args.df = 5
    /\ args.events = ExampleEvents
    /\ Len(hist) = 2
    /\ ~SeriesEq(hist[1].before, hist[1].after)
    /\ ~SeriesEq(hist[2].before, hist[2].after)

\* The kind of a handled event ("" when the type is not a string)
KindOf(h) == IF h.event.type.tag = "str" THEN Lower(h.event.type.v) ELSE ""

\* C3: an ipo event at step t on a series of n points makes every point before
\* step t absent and leaves the points from t on as they were when 0 < t < n,
\* and changes nothing when t <= 0 or t >= n.
C3_Ipo ==
    \A k \in 1..Len(hist) :
        KindOf(hist[k]) = "ipo" =>
            LET t == hist[k].event.trigger_step
                n == Len(hist[k].before)
            IN  /\ Len(hist[k].after) = n
                /\ (0 < t /\ t < n) =>
                     \A i \in 1..n :
                        IF i <= t THEN hist[k].after[i].nan
                        ELSE PEq(hist[k].after[i], hist[k].before[i])
                /\ (t <= 0 \/ t >= n) => SeriesEq(hist[k].after, hist[k].before)

\* An ipo with 0 < t < n has made present points absent
C3_Witness ==
    \E k \in 1..Len(hist) :
        /\ KindOf(hist[k]) = "ipo"
        /\ hist[k].event.trigger_step > 0
        /\ hist[k].event.trigger_step < Len(hist[k].before)
        /\ ~hist[k].before[1].nan
        /\ hist[k].after[1].nan
        /\ ~hist[k].after[Len(hist[k].after)].nan

\* Whether the trigger step of a handled event lies inside the series
InRange(h) == h.event.trigger_step >= 0 /\ h.event.trigger_step < Len(h.before)

\* C4: an earnings event at step t with the magnitude m given in the event (any
\* number) multiplies every point at index >= t by 1 + m, or by 0.01 when
\* 1 + m <= 0, and leaves the points before t as they were.
C4_EarningsMultiplier ==
    \A k \in 1..Len(hist) :
        (KindOf(hist[k]) = "earnings" /\ InRange(hist[k])
            /\ hist[k].event.magnitude.tag = "num") =>
            LET t == hist[k].event.trigger_step
                m == hist[k].event.magnitude.v
                by == IF RLe(RAdd(ROne, m), RZero) THEN Q(1, 100) ELSE RAdd(ROne, m)
            IN  /\ Len(hist[k].after) = Len(hist[k].before)
                /\ \A i \in 1..Len(hist[k].before) :
                      IF i <= t THEN PEq(hist[k].after[i], hist[k].before[i])
                      ELSE PEq(hist[k].after[i], PMul(hist[k].before[i], by))

\* Whether a handled event is a crash whose magnitude is given strictly between
\* 0.01 and 0.99 and whose duration is given (at least 1), inside the series
PlainCrash(h) ==
    /\ KindOf(h) = "crash"
    /\ InRange(h)
    /\ h.event.magnitude.tag = "num"
    /\ RLt(Q(1, 100), h.event.magnitude.v)
    /\ RLt(h.event.magnitude.v, Q(99, 100))
    /\ h.event.duration.tag = "int"
    /\ h.event.duration.v >= 1

\* C5: a crash event at step t with magnitude m (0.01 < m < 0.99) and duration d
\* leaves every point before t as it was, and every point at index >=
\* t + min(d, len - t) is exactly its value before the call times 1 - m.
C5_CrashRebase ==
    \A k \in 1..Len(hist) :
        PlainCrash(hist[k]) =>
            LET t == hist[k].event.trigger_step
                m == hist[k].event.magnitude.v
                d == hist[k].event.duration.v
                n == Len(hist[k].before)
                w == IF d < n - t THEN d ELSE n - t
            IN  /\ Len(hist[k].after) = n
                /\ \A i \in 1..n :
                      /\ i <= t => PEq(hist[k].after[i], hist[k].before[i])
                      /\ i > t + w =>
                            PEq(hist[k].after[i],
                                PMul(hist[k].before[i], RSub(ROne, m)))

\* Such a crash has run and points lie after its window
C5_Witness ==
    \E k \in 1..Len(hist) :
        /\ PlainCrash(hist[k])
        /\ hist[k].trace.ran
        /\ hist[k].event.trigger_step > 0
        /\ hist[k].event.trigger_step + hist[k].event.duration.v < Len(hist[k].before)
        /\ ~hist[k].after[Len(hist[k].after)].nan
        /\ ~PEq(hist[k].after[Len(hist[k].after)], hist[k].before[Len(hist[k].before)])

\* C6: inside the window of a crash of (clamped) magnitude m, the cumulative
\* multiplier applied to a point is never below 1 - 1.1 m.
C6_CumulativeFloor ==
    \A k \in 1..Len(hist) :
        hist[k].trace.ran =>
            /\ Len(hist[k].trace.cum) = hist[k].trace.crash_end - hist[k].event.trigger_step
            /\ \A i \in 1..Len(hist[k].trace.cum) :
                  /\ RLe(RSub(ROne, RMul(Q(11, 10), hist[k].trace.magnitude)),
                         hist[k].trace.cum[i])
                  /\ hist[k].before[hist[k].event.trigger_step + i].nan
                     \/ PEq(hist[k].after[hist[k].event.trigger_step + i],
                            PMul(hist[k].before[hist[k].event.trigger_step + i],
                                 hist[k].trace.cum[i]))

\* A crash has run in which the floor replaced a lower product
C6_Witness ==
    \E k \in 1..Len(hist) :
        /\ hist[k].trace.ran
        /\ \E i \in 1..Len(hist[k].trace.cum) :
              /\ REq(hist[k].trace.cum[i],
                     RSub(ROne, RMul(Q(11, 10), hist[k].trace.magnitude)))
              /\ RLt(RMul(IF i = 1 THEN ROne ELSE hist[k].trace.cum[i - 1],
                          RAdd(ROne, hist[k].trace.returns[i])),
                     hist[k].trace.cum[i])
              /\ ~hist[k].after[hist[k].event.trigger_step + i].nan

\* C7: an event of a known kind whose trigger step is negative or at least the
\* length of the series leaves every point as it was and raises no error.
C7_OutOfRange ==
    \A k \in 1..Len(hist) :
        (KindOf(hist[k]) \in {"ipo", "crash", "earnings"} /\ ~InRange(hist[k])) =>
            /\ hist[k].outcome = "applied"
            /\ SeriesEq(hist[k].after, hist[k].before)
            /\ \A i \in 1..Len(hist[k].before) :
                  hist[k].after[i].nan = hist[k].before[i].nan

\* An event of a known kind with a trigger step at or past the end has been
\* handled after an event that changed the series, and the call has returned
C7_Witness ==
    /\ pc = "done"
    /\ Len(hist) = 2
    /\ ~SeriesEq(hist[1].before, hist[1].after)
    /\ KindOf(hist[2]) \in {"ipo", "crash", "earnings"}
    /\ hist[2].event.trigger_step >= Len(hist[2].before)
    /\ SeriesEq(ReturnedPrices, hist[1].after)

\* C8: an event of an unknown kind, or one whose application raises, is skipped:
\* it changes nothing, the events after it are still handled, and the call
\* returns a series of the length of its input.
C8_BadEventSkipped ==
    /\ \A k \in 1..Len(hist) :
         /\ KindOf(hist[k]) \notin {"ipo", "crash", "earnings"} =>
                hist[k].outcome \in {"skipped", "failed"}
         /\ hist[k].outcome \in {"skipped", "failed"} =>
                /\ hist[k].same_object
                /\ hist[k].after = hist[k].before
         /\ Len(hist[k].after) = Len(InputPrices)
    /\ pc \in {"idle", "loop", "done", "dict_done"}
    /\ pc = "loop" => idx = Len(hist) + 1 /\ idx <= Len(args.events)
    /\ (pc = "done" /\ found) =>
         /\ Len(hist) = Len(args.events)
         /\ \A k \in 1..Len(hist) : hist[k].event = args.events[k]
         /\ DfLen(heap[ret]) = DfLen(Pool[args.df])

\* A call has returned in which an event raised and the one after it changed the
\* series
C8_Witness ==
    /\ pc = "done"
    /\ Len(hist) = 2
    /\ hist[1].outcome = "failed"
    /\ hist[2].outcome = "applied"
    /\ ~SeriesEq(hist[2].before, hist[2].after)
    /\ SeriesEq(ReturnedPrices, hist[2].after)

(***************************************************************************)
(* Properties of dataset creation and path generation                      *)
(***************************************************************************)
\* The prices stored for the k-th asset of the i-th dataset
StoredPrices(i, k) == heap[datasets[i].data[k].df].data["price"]

\* C9: two create-dataset requests with the same parameters (assets, start
\* prices, frequency, horizon, seed and events) produce the same price data,
\* whatever the events, crash events included.
C9_SameRequestSameData ==
    \A i, j \in 1..Len(datasets) :
        created[i] = created[j] =>
            /\ Len(datasets[i].data) = Len(datasets[j].data)
            /\ \A k \in 1..Len(datasets[i].data) :
                  /\ datasets[i].data[k].symbol = datasets[j].data[k].symbol
                  /\ SeriesEq(StoredPrices(i, k), StoredPrices(j, k))

StepsPerDayOf(frequency) ==
    CASE frequency = "1m" -> 1440 [] frequency = "5m" -> 288 [] frequency = "15m" -> 96
      [] frequency = "30m" -> 48 [] frequency = "1h" -> 24 [] frequency = "4h" -> 6
      [] frequency = "1d" -> 1

\* C11: for a supported frequency and a valid horizon (at least one day), the
\* sequence generate_path returns has exactly step_count + 1 points, where
\* step_count = steps_per_day(frequency) * horizon_days, and its first point is
\* the start price.
C11_PathLength ==
    \A i \in 1..Len(paths) :
        (/\ paths[i].config.frequency \in {"1m", "5m", "15m", "30m", "1h", "4h", "1d"}
         /\ paths[i].config.horizon_days >= 1
         /\ paths[i].seed = None \/ paths[i].seed.v >= 0) =>
            /\ ~paths[i].raised
            /\ Len(paths[i].Close) =
                 StepsPerDayOf(paths[i].config.frequency) * paths[i].config.horizon_days + 1
            /\ Len(paths[i].Timestamp) = Len(paths[i].Close)
            /\ PEq(paths[i].Close[1], Price(paths[i].base_params.last_price))

\* Paths of 25, 7 and 3 points have been generated
C11_Witness ==
    /\ Len(paths) = 3
    /\ paths[1].config.frequency = "1h" /\ Len(paths[1].Close) = 25
    /\ paths[2].config.frequency = "4h" /\ Len(paths[2].Close) = 7
    /\ paths[3].config.frequency = "1d" /\ Len(paths[3].Close) = 3
    /\ ~PEq(paths[1].Close[25], paths[1].Close[1])

\* C13: generate_path fails, and returns no sequence, when the start price is
\* not positive, the horizon is negative, or the step count is not positive.
C13_InvalidParameters ==
    \A i \in 1..Len(paths) :
        (/\ paths[i].config.frequency \in {"1m", "5m", "15m", "30m", "1h", "4h", "1d"}
         /\ \/ RLe(paths[i].base_params.last_price, RZero)
            \/ paths[i].config.horizon_days < 0
            \/ StepsPerDayOf(paths[i].config.frequency) * paths[i].config.horizon_days <= 0)
        => paths[i].raised /\ paths[i].Close = <<>>

\* C12: a request with an unsupported frequency fails before any output exists:
\* generate_dataset and generate_path raise and return no prices, and after a
\* failed create-dataset request the store holds no new dataset and the
\* dataset-id counter is unchanged; every stored dataset has a supported
\* frequency and the counter counts the stored datasets.
C12_UnsupportedFrequency ==
    /\ [](/\ \A r \in Requests : r.frequency \notin {"1m", "5m", "15m", "30m", "1h", "4h", "1d"}
               => /\ GenerateDataset(heap, r, clock, <<>>).raised
                  /\ GenerateDataset(heap, r, clock, <<>>).data_store = <<>>
          /\ \A c \in PathCalls : c.config.frequency \notin {"1m", "5m", "15m", "30m", "1h", "4h", "1d"}
               => /\ GeneratePathCall(c.base_params, c.config, c.seed, 0, clock).raised
                  /\ GeneratePathCall(c.base_params, c.config, c.seed, 0, clock).Close = <<>>
          /\ dataset_counter = Len(datasets)
          /\ \A i \in 1..Len(datasets) :
                datasets[i].frequency \in {"1m", "5m", "15m", "30m", "1h", "4h", "1d"})
    /\ [][response'.status_code = 400
            => datasets' = datasets /\ dataset_counter' = dataset_counter /\ heap' = heap]_vars

\* A request with an unsupported frequency has been refused after a dataset was
\* stored
C12_Witness ==
    /\ response # None
    /\ response.status_code = 400
    /\ response.detail = "Invalid frequency"
    /\ Len(datasets) = 1
    /\ dataset_counter = 1

\* The present (not NaN) prices of a series are all above zero
Positive(prices) == \A i \in 1..Len(prices) : ~prices[i].nan => prices[i].c.s > 0

\* C14: whatever the events (an earnings shock of any magnitude, a crash of any
\* magnitude and duration), if every present price of the input is above zero
\* then so is every present price of what apply_events returns: no event makes
\* a positive series non-positive.
C14_PricesStayPositive ==
    \A k \in 1..Len(hist) : Positive(hist[k].before) => Positive(hist[k].after)

\* What apply_events returns for the series df alone, with the clock readings
\* nows (one for each event, read or not)
Alone(df, events, price_column, nows) ==
    LET r == ApplyEvents(<<Pool[df]>>, 1, events, price_column, nows)
    IN  r.heap[r.ret]

\* C15: apply_events_to_dict returns a dictionary with exactly the symbols of its
\* input, in their order, and the series of each symbol is what apply_events
\* returns for that symbol's series alone with the same events (and the same
\* random draws, which come from the clock), so no symbol's output depends on
\* another symbol's input. With earnings (step 5, +0.1) on A = 100 and B = 200,
\* A[5] = 110 and B[5] = 220, and A[4] = 100 and B[4] = 200.
C15_DictPerSymbol ==
    pc = "dict_done" =>
        /\ Len(dout) = Len(dargs.data_store)
        /\ \A k \in 1..Len(dout) :
             /\ dout[k].symbol = dargs.data_store[k].symbol
             /\ \E nows \in [1..Len(dargs.events) -> 0..MaxClock] :
                  heap[dout[k].df] =
                      Alone(dargs.data_store[k].df, dargs.events, dargs.price_column, nows)
        /\ (dargs.data_store = <<Item("AAPL", 6), Item("GOOGL", 7)>>
              /\ dargs.events = <<Earnings(5, Num(Q(1, 10)))>>) =>
             /\ PEq(heap[dout[1].df].data["price"][6], Price(RInt(110)))
             /\ PEq(heap[dout[2].df].data["price"][6], Price(RInt(220)))
             /\ PEq(heap[dout[1].df].data["price"][5], Price(RInt(100)))
             /\ PEq(heap[dout[2].df].data["price"][5], Price(RInt(200)))

\* The example dictionary call has returned, with both series changed
C15_Witness ==
    /\ pc = "dict_done"
    /\ Len(dout) = 2
    /\ dargs.events = <<Earnings(5, Num(Q(1, 10)))>>
    /\ heap[dout[1].df] # Pool[6]
    /\ heap[dout[2].df] # Pool[7]

\* C16: a point an ipo event has made absent (NaN) stays absent under every
\* later event, and the points at and after the ipo trigger are still
\* transformed: no event makes an absent point present. With ipo (step 10) then
\* earnings (step 15, +0.1) on a constant series of 100, indices 0 to 9 are
\* absent, 10 to 14 are 100 and 15 onward are 110.
C16_AbsentStaysAbsent ==
    /\ \A k \in 1..Len(hist) : \A i \in 1..Len(hist[k].before) :
         hist[k].before[i].nan => hist[k].after[i].nan
    /\ (pc = "done" /\ args.df = 5 /\ args.events = <<Ipo(10), Earnings(15, Num(Q(1, 10)))>>) =>
         /\ \A i \in 1..10 : ReturnedPrices[i].nan
         /\ \A i \in 11..15 : PEq(ReturnedPrices[i], Price(RInt(100)))
         /\ \A i \in 16..30 : PEq(ReturnedPrices[i], Price(RInt(110)))

\* An event has changed a series that an ipo before it had left with absent
\* points
C16_Witness ==
    /\ Len(hist) = 2
    /\ hist[1].event.type = Str("ipo")
    /\ \E i \in 1..Len(hist[2].before) : hist[2].before[i].nan
    /\ ~SeriesEq(hist[2].before, hist[2].after)

\* The positions of the columns whose lower-cased name is close, price or prices
PriceLike(columns) == {i \in 1..Len(columns) : Lower(columns[i]) \in {"close", "price", "prices"}}

\* C17: the price column of a call: the hinted name when the series has a column
\* of exactly that name; otherwise the first column, in column order, whose
\* lower-cased name is close, price or prices; when there is none, apply_events
\* returns the series unchanged (a copy), without error and without applying
\* any event.
C17_PriceColumn ==
    (pc # "idle" /\ args.df \in 1..Len(Pool)) =>
        LET columns == Pool[args.df].columns
        IN  IF InSeq(args.price_column, columns)
            THEN found /\ price_col = args.price_column
            ELSE IF PriceLike(columns) # {}
            THEN /\ found
                 /\ \E i \in PriceLike(columns) :
                      /\ price_col = columns[i]
                      /\ \A j \in PriceLike(columns) : i <= j
            ELSE /\ ~found
                 /\ pc \in {"done", "dict_done"}
                 /\ hist = <<>>
                 /\ ret \notin 1..Len(Pool)
                 /\ heap[ret] = Pool[args.df]

\* An event has been applied to the column PRICE, found for the hint price in a
\* series that also has a column close
C17_Witness ==
    /\ pc = "done"
    /\ args.df = 4
    /\ args.price_column = "price"
    /\ price_col = "PRICE"
    /\ Len(hist) = 1
    /\ ~SeriesEq(hist[1].before, hist[1].after)
    /\ heap[ret].data["close"] = Pool[4].data["close"]

\* The request count of a key in a store (0 for a key with no record)
CountOf(limits, api_key) ==
    IF limits[api_key] = None THEN 0 ELSE limits[api_key].request_count

\* The end of the window of a key in a store (its start plus the window), a key
\* with no record having a window that starts now
WindowEnd(limits, api_key, now) ==
    IF limits[api_key] = None THEN now + 60 ELSE limits[api_key].window_start.t + 60

\* C18: for each key separately, check_and_update allows exactly the first
\* max_requests (10) calls of a window and denies every further call of that
\* window with retry_after >= 1, leaving the count unchanged; the first call at
\* or after the end of the window (60 s) is allowed and starts a new window with
\* count 1; a call never changes the record of another key; a key with no
\* earlier requests has its full quota, so its first call is allowed.
C18_PerKeyQuota ==
    (rate_ret # None /\ rate_ret.op = "check_and_update") =>
        /\ ~rate_ret.raised
        /\ \A k \in ApiKeys \ {rate_ret.api_key} : rate_limits[k] = rate_ret.before[k]
        /\ IF rate_ret.now >= WindowEnd(rate_ret.before, rate_ret.api_key, rate_ret.now)
           THEN /\ rate_ret.value[1]
                /\ CountOf(rate_limits, rate_ret.api_key) = 1
                /\ rate_limits[rate_ret.api_key].window_start.t = rate_ret.now
           ELSE IF CountOf(rate_ret.before, rate_ret.api_key) < 10
           THEN /\ rate_ret.value[1]
                /\ CountOf(rate_limits, rate_ret.api_key)
                     = CountOf(rate_ret.before, rate_ret.api_key) + 1
           ELSE /\ ~rate_ret.value[1]
                /\ rate_ret.value[3] >= 1
                /\ CountOf(rate_limits, rate_ret.api_key)
                     = CountOf(rate_ret.before, rate_ret.api_key)

\* C19: get_status and verify_api_key_status of a valid key consume no quota:
\* they leave the request count of every key unchanged and report remaining =
\* max_requests minus the requests counted in the current window, never below
\* 0, and max_requests once the window has elapsed; after k allowed requests in
\* a window they report max_requests - k.
C19_StatusConsumesNothing ==
    (/\ rate_ret # None
     /\ rate_ret.op \in {"get_status", "verify_api_key_status"}
     /\ rate_ret.api_key \in ApiKeys) =>
        /\ ~rate_ret.raised
        /\ \A k \in ApiKeys : CountOf(rate_limits, k) = CountOf(rate_ret.before, k)
        /\ LET remaining == IF rate_ret.op = "get_status" THEN rate_ret.value[1]
                            ELSE rate_ret.value[2]
               counted == CountOf(rate_ret.before, rate_ret.api_key)
           IN  IF rate_ret.now >= WindowEnd(rate_ret.before, rate_ret.api_key, rate_ret.now)
               THEN remaining = 10
               ELSE remaining = (IF counted < 10 THEN 10 - counted ELSE 0)

\* The last get_parameters call follows the caching rule; bypass tells whether
\* the call is one that does not look into the cache: an entry of its pair that
\* has not expired is returned as it is, without a fetch and without a change
\* of the cache; otherwise history is fetched, a failed fetch leaves the cache
\* unchanged, and a successful one stores what it returns, expiring 3600 s
\* after the call
CachingHolds(bypass) ==
    LET key == <<params_ret.call.region, Upper(params_ret.call.symbol)>>
        entry == params_ret.before[key]
    IN  IF entry # None /\ params_ret.now < entry.expires_at /\ ~bypass
        THEN /\ ~params_ret.fetched
             /\ ~params_ret.raised
             /\ params_ret.value = entry.parameters
             /\ cache = params_ret.before
        ELSE /\ params_ret.fetched
             /\ params_ret.raised => cache = params_ret.before
             /\ ~params_ret.raised =>
                  /\ params_ret.value.fetched_at = params_ret.now
                  /\ cache = [params_ret.before EXCEPT ![key] =
                                 [parameters |-> params_ret.value,
                                  expires_at |-> params_ret.now + 3600]]

\* C20 (as stated): after a successful get_parameters for a (symbol, region)
\* pair, every later get_parameters for that pair made before the expiry of the
\* entry (fetch time + 3600 s) returns the cached parameters without calling
\* fetch_history; a call at or after the expiry fetches again and replaces the
\* entry; a failed fetch leaves the cache unchanged.
C20_CachedUntilExpiry == params_ret # None => CachingHolds(FALSE)

\* C20 (amended): the same for the calls made with use_cache true, the default;
\* a call made with use_cache false fetches whatever the cache holds, and
\* replaces the entry when the fetch succeeds.
C20_CachedUnlessBypassed ==
    params_ret # None => CachingHolds(~params_ret.call.use_cache)

\* A call made one second before the expiry of the entry of its pair has been
\* answered from the cache, with a fetch that would have returned other data
C20_Witness ==
    /\ params_ret # None
    /\ params_ret.call.use_cache
    /\ ~params_ret.fetched
    /\ params_ret.call.symbol = "aapl"
    /\ params_ret.now + 1 = cache[<<"US", "AAPL">>].expires_at
    /\ params_ret.value.symbol = "AAPL"
    /\ cache[<<"US", "MSFT">>] # None

\* The crash of iteration k ran on a window of at least two steps that lies
\* inside the series
WindowInside(h) ==
    /\ h.trace.ran
    /\ h.trace.crash_end - h.event.trigger_step >= 2
    /\ h.event.trigger_step + ClampDuration(PyOr(h.event.duration, IntV(DefaultCrashDuration)).v)
         <= Len(h.before)

\* C21: a crash lowers the price over its window, whatever the random draws:
\* when the window lies inside the series and the input has the same (present)
\* price at the first and the last step of the window, the output at the last
\* step of the window is below the output at its first step.
C21_NetDecline ==
    \A k \in 1..Len(hist) :
        (/\ WindowInside(hist[k])
         /\ ~hist[k].before[hist[k].event.trigger_step + 1].nan
         /\ PEq(hist[k].before[hist[k].event.trigger_step + 1],
                hist[k].before[hist[k].trace.crash_end])) =>
            RLt(hist[k].after[hist[k].trace.crash_end].c,
                hist[k].after[hist[k].event.trigger_step + 1].c)

\* The magnitude the specification gives a crash of magnitude m
EffectiveMagnitude(m) ==
    IF RLe(m, RZero) THEN MinMagnitude ELSE IF RLe(ROne, m) THEN MaxMagnitude ELSE m

\* The crash of iteration k ran with a numeric magnitude and an integer duration
GivenCrash(h) ==
    /\ h.trace.ran
    /\ h.event.magnitude.tag = "num"
    /\ h.event.duration.tag = "int"

\* C22: a crash applied through apply_events runs with magnitude 0.01 when the
\* given magnitude is at most 0, with 0.99 when it is at least 1 and with the
\* given magnitude otherwise; its window has max(duration, 1) steps (cut at the
\* end of the series), and every price after the window is the input price
\* times 1 - effective magnitude.
C22_EffectiveCrash ==
    \A k \in 1..Len(hist) :
        GivenCrash(hist[k]) =>
            LET h == hist[k]
                eff == EffectiveMagnitude(h.event.magnitude.v)
                ad == IF h.event.duration.v < 1 THEN 1 ELSE h.event.duration.v
                last == IF h.event.trigger_step + ad < Len(h.before)
                        THEN h.event.trigger_step + ad ELSE Len(h.before)
            IN  /\ REq(h.trace.magnitude, eff)
                /\ h.trace.crash_end = last
                /\ \A i \in (last + 1)..Len(h.before) :
                       PEq(h.after[i], PMul(h.before[i], RSub(ROne, eff)))

\* The cumulative multiplier before step i of a crash window
CumBefore(cum, i) == IF i = 1 THEN ROne ELSE cum[i - 1]

\* C23: within a crash window every per-step return that is applied lies in
\* [-0.15, 0.05]: no step lowers the cumulative multiplier by more than 15% or
\* raises it by more than 5%.
C23_StepReturnsClamped ==
    \A k \in 1..Len(hist) :
        hist[k].trace.ran =>
            \A i \in 1..Len(hist[k].trace.returns) :
                /\ RLe(MaxStepDrop, hist[k].trace.returns[i])
                /\ RLe(hist[k].trace.returns[i], MaxStepGain)
                /\ RLe(RMul(CumBefore(hist[k].trace.cum, i), RAdd(ROne, MaxStepDrop)),
                       hist[k].trace.cum[i])
                /\ RLe(hist[k].trace.cum[i],
                       RMul(CumBefore(hist[k].trace.cum, i), RAdd(ROne, MaxStepGain)))

\* The series of dargs.price_column of item k of the input and of the output of
\* apply_events_to_dict
DictInput(k) == heap[dargs.data_store[k].df].data[dargs.price_column]
DictOutput(k) == heap[dout[k].df].data[dargs.price_column]
\* The items whose frames have the column dargs.price_column
DictPriced ==
    {k \in 1..Len(dout) :
        /\ dargs.price_column \in DOMAIN heap[dargs.data_store[k].df].data
        /\ dargs.price_column \in DOMAIN heap[dout[k].df].data}
\* Output over input at index i is the same for the items j and k
SameRatio(j, k, i) ==
    /\ DictOutput(j)[i].nan = DictOutput(k)[i].nan
    /\ REq(RMul(DictOutput(j)[i].c, DictInput(k)[i].c),
           RMul(DictOutput(k)[i].c, DictInput(j)[i].c))

\* C24: apply_events_to_dict applies an event list with a crash identically to
\* every symbol: the symbols receive the same random draws, so at every index
\* the ratio of the output price to the input price is the same for all
\* symbols.
C24_SameDrawsPerSymbol ==
    (pc = "dict_done" /\ \E e \in 1..Len(dargs.events) : dargs.events[e].type = Str("crash")) =>
        \A j \in DictPriced : \A k \in DictPriced :
            Len(DictInput(j)) = Len(DictInput(k)) =>
                \A i \in 1..Len(DictInput(j)) : SameRatio(j, k, i)

\* C25: two unseeded crashes applied one after the other, even within the same
\* clock tick, start from distinct random states: no two crashes that ran in
\* one apply_events call have seeded their generators alike.
C25_DistinctRandomStates ==
    \A j \in 1..Len(hist) : \A k \in 1..Len(hist) :
        (j < k /\ hist[j].trace.ran /\ hist[k].trace.ran) =>
            hist[j].trace.seed # hist[k].trace.seed

\* Iterations k and k + 1 applied the same event (two crashes with the same
\* random draws)
AppliedTwice(k) ==
    /\ k + 1 <= Len(hist)
    /\ hist[k].event = hist[k + 1].event
    /\ InRange(hist[k])
    /\ hist[k].outcome = "applied" /\ hist[k + 1].outcome = "applied"
    /\ hist[k].trace.seed = hist[k + 1].trace.seed

\* The factor one application of the event of iteration k puts on index i
FactorAt(h, i) ==
    IF i <= h.event.trigger_step THEN ROne
    ELSE IF KindOf(h) = "earnings" THEN EarningsMultiplier(h.event.magnitude.v)
    ELSE IF i <= h.trace.crash_end THEN h.trace.cum[i - h.event.trigger_step]
    ELSE RSub(ROne, h.trace.magnitude)

\* C26 (as the repository has it): only the ipo rule is idempotent. The same ipo
\* applied twice in succession gives the series of applying it once; the same
\* earnings event, or the same crash with the same draws, applied twice puts its
\* factor on every index twice (the earnings multiplier, the cumulative
\* multipliers of the window, and 1 - magnitude after the window).
C26_OnlyIpoIdempotent ==
    \A k \in 1..Len(hist) :
        AppliedTwice(k) =>
            IF KindOf(hist[k]) = "ipo"
            THEN SeriesEq(hist[k + 1].after, hist[k].after)
            ELSE \A i \in 1..Len(hist[k].before) :
                    PEq(hist[k + 1].after[i],
                        PMul(PMul(hist[k].before[i], FactorAt(hist[k], i)),
                             FactorAt(hist[k], i)))

\* The same earnings event has been applied twice, and the second application
\* has changed the series again
C26_Witness ==
    /\ AppliedTwice(1)
    /\ KindOf(hist[1]) = "earnings"
    /\ ~SeriesEq(hist[2].after, hist[1].after)

\* C26 (as stated): every event kind's rule is idempotent: the same ipo,
\* earnings event or crash (with the same draws) applied twice in succession
\* gives the series of applying it once.
C26_Idempotent ==
    \A k \in 1..Len(hist) :
        AppliedTwice(k) => SeriesEq(hist[k + 1].after, hist[k].after)

\* The steps per day the specification gives each supported frequency
StepsTable(f) ==
    CASE f = "1m" -> 1440 [] f = "5m" -> 288 [] f = "15m" -> 96 [] f = "30m" -> 48
      [] f = "1h" -> 24 [] f = "4h" -> 6 [] f = "1d" -> 1
StepLookups == {"calculate_steps_per_day", "_get_steps_per_day"}

\* C28: every frequency lookup of the two generator modules returns, for each
\* of the seven supported frequencies, the value of the table (1m: 1440, 5m:
\* 288, 15m: 96, 30m: 48, 1h: 24, 4h: 6, 1d: 1 steps per day, and the step
\* duration that times the steps per day is exactly one day), and fails for any
\* other frequency string instead of returning a value.
C28_FrequencyLookups ==
    \A k \in 1..Len(lookups) :
        LET l == lookups[k]
        IN  IF l.frequency \in {"1m", "5m", "15m", "30m", "1h", "4h", "1d"}
            THEN /\ ~l.raised
                 /\ l.fn \in StepLookups => l.value = StepsTable(l.frequency)
                 /\ l.fn \notin StepLookups => l.value * StepsTable(l.frequency) = 86400
            ELSE l.raised

\* The call of run k had the events of the call of run j in the other order
Swapped(j, k) ==
    /\ runs[j].prices = runs[k].prices
    /\ runs[k].events = <<runs[j].events[2], runs[j].events[1]>>

\* Both events of run j are earnings events that changed the series
TwoShocks(j) ==
    \A e \in 1..2 :
        /\ Lower(runs[j].events[e].type.v) = "earnings"
        /\ runs[j].events[e].trigger_step < Len(runs[j].prices)

\* x and y are both absent, or both present and within |x| * 2^-51 of each other
CloseTo(x, y) ==
    IF x.nan \/ y.nan THEN x.nan = y.nan
    ELSE RLe(RMul(RAbs(RSub(x.c, y.c)), [s |-> 1, n |-> BPow2(51), d |-> <<1>>]),
             RAbs(x.c))

\* C29 (as the repository has it): two events that are each an ipo or an
\* earnings event commute up to the rounding of float64: [A, B] and [B, A] give
\* series with the same absent points whose present points differ by at most
\* 2^-51 of their value, and give the very same series unless A and B are both
\* earnings events that change the series.
C29_CommuteUpToRounding ==
    \A j \in 1..Len(runs) : \A k \in 1..Len(runs) :
        Swapped(j, k) =>
            /\ \A i \in 1..Len(runs[j].out) : CloseTo(runs[j].out[i], runs[k].out[i])
            /\ ~TwoShocks(j) => SeriesEq(runs[j].out, runs[k].out)

\* Two earnings events of different magnitudes have been applied in both
\* orders, and the two series returned differ
C29_Witness ==
    /\ Len(runs) = 2
    /\ Swapped(1, 2)
    /\ TwoShocks(1)
    /\ runs[1].events[1] # runs[1].events[2]
    /\ ~SeriesEq(runs[1].out, runs[2].out)

\* C29 (as stated): events whose rules use no randomness commute: for two
\* events A and B that are each an ipo or an earnings event, [A, B] gives the
\* same series as [B, A].
C29_Commute ==
    \A j \in 1..Len(runs) : \A k \in 1..Len(runs) :
        Swapped(j, k) => SeriesEq(runs[j].out, runs[k].out)

====
